---- MODULE Spec2Model ----
(***************************************************************************)
(* Resilient RPC access layer and monitors of stellar-insights: the error  *)
(* taxonomy (rpc/error.rs), the circuit breaker (rpc/circuit_breaker.rs),  *)
(* the retry driver (rpc/retry.rs), the client (rpc/stellar.rs), the       *)
(* alert manager (alerts.rs) and the corridor and anchor monitors          *)
(* (monitor.rs, services/anchor_monitor.rs).                               *)
(*                                                                         *)
(* Specifications:                                                         *)
(*   Spec         concurrent callers of one CircuitBreaker                 *)
(*   SpecSeq      one caller at a time, with an observer counting outcomes *)
(*   SpecErr      RpcError::is_retryable applied to drawn errors           *)
(*   SpecRetry    retry_with_backoff around a nondeterministic operation   *)
(*   SpecResp     check_health_internal applied to drawn HTTP deliveries   *)
(*   SpecClient   concurrent operations on one StellarRpcClient            *)
(*   SpecMonitor  the monitor tasks and their alerts                       *)
(***************************************************************************)
EXTENDS Integers, Sequences, FiniteSets

VARIABLES
    \* ---- circuit_breaker.rs: one CircuitBreaker instance ----
    config,      \* CircuitBreakerConfig of the instance
    state,       \* the CircuitState behind Arc<Mutex<..>>
    now,         \* the monotonic clock read by Instant::now() / elapsed()
    pc,          \* per caller: position inside CircuitBreaker::call
    res,         \* per caller: result of the wrapped future / value returned
    published,   \* last value given to metrics::set_circuit_breaker_state
    \* ---- observer of SpecSeq (history, not program state) ----
    consec,      \* retryable failures since the last successful call
    halfSucc,    \* successful calls since the breaker last became HalfOpen (-1: never)
    wiped,       \* value of consec at the last successful call (-1: none yet)
    probes,      \* calls admitted since the breaker last became HalfOpen
    \* ---- error.rs: is_retryable as a pure function ----
    e_in,        \* the RpcError the function is applied to
    e_out,       \* what is_retryable returned for it
    \* ---- retry.rs: one run of retry_with_backoff ----
    rcfg,        \* the arguments max_retries, initial_backoff, max_backoff
    attempt,     \* local `attempt`
    backoff,     \* local `backoff`
    rpc,         \* position inside retry_with_backoff
    rlast,       \* what the last f().await resolved to
    invocations, \* number of times f() was invoked
    sleeps,      \* durations given to tokio::time::sleep, in order
    hinted,      \* history: some retried error carried a retry_after hint
    rresult,     \* the value retry_with_backoff returned
    \* ---- stellar.rs: one HTTP exchange of check_health_internal ----
    resp_in,     \* what the transport delivered: a failure or a response
    resp_out,    \* what check_health_internal returned for it
    \* ---- stellar.rs: StellarRpcClient operations ----
    mock_mode,   \* StellarRpcClient::mock_mode
    cmax_retries, \* RpcClientConfig::max_retries of the client
    cpc,         \* per caller: position inside the client operation
    cattempt,    \* per caller: `attempt` of its retry_with_backoff run
    requests,    \* per caller: HTTP requests sent by the current operation
    recorded,    \* per caller: errors given to metrics::record_rpc_error by it
    cres,        \* per caller: the value the operation returned
    \* ---- monitor.rs, services/anchor_monitor.rs, alerts.rs ----
    webhooks,        \* which webhook_event_service options are Some
    previous_state,  \* CorridorMonitor::previous_state
    last_metrics,    \* AnchorMonitor::last_metrics
    mpc,             \* position of the CorridorMonitor task
    page,            \* payments returned by the pending cycle's fetch
    apc,             \* position of the AnchorMonitor task
    todo,            \* anchors the pending check_anchors loop has yet to visit
    sent,            \* alerts given to tx.send by the latest monitor step or call
    spawned,         \* notification tasks spawned by the latest monitor step or call
    \* ---- observer of SpecMonitor (history, not program state) ----
    fresh,       \* per corridor: its snapshot was written by the latest cycle
    seen,        \* per corridor: the values derived the last time a page had it
    fails,       \* consecutive failed cycles of the CorridorMonitor (saturating)
    \* ---- alerts.rs: check_and_alert as a pure function ----
    chk_in,      \* the corridor id and the old and new values it is given
    chk_out,     \* the alerts it gave to tx.send
    \* ---- alerts.rs, services/slack_bot.rs: the broadcast channel ----
    log,         \* every alert the channel accepted, in send order
    rx,          \* per receiver: subscription, cursor and listener position
    outcomes,    \* what tx.send returned to the latest AlertManager call
    tasks        \* spawned notification tasks that have not finished

breakerVars == <<config, state, now, pc, res, published>>
observerVars == <<consec, halfSucc, wiped, probes>>
errVars == <<e_in, e_out>>
retryVars == <<rcfg, attempt, backoff, rpc, rlast, invocations, sleeps, hinted, rresult>>
respVars == <<resp_in, resp_out>>
clientVars == <<mock_mode, cmax_retries, cpc, cattempt, requests, recorded, cres>>
monitorVars == <<webhooks, previous_state, last_metrics, mpc, page, apc, todo, sent, spawned>>
cycleVars == <<fresh, seen, fails>>
checkVars == <<chk_in, chk_out>>
channelVars == <<log, rx, outcomes, tasks>>
vars == <<breakerVars, observerVars, errVars, retryVars, respVars, clientVars, monitorVars, cycleVars, checkVars, channelVars>>

(***************************************************************************)
(* Bounds of the model.                                                    *)
(***************************************************************************)
MaxThreshold == 2    \* failure_threshold, success_threshold in 0..MaxThreshold
MaxTimeout == 2      \* timeout_duration in 0..MaxTimeout clock units
MaxTime == 4         \* the clock runs from 0 to MaxTime
MaxStatus == 699     \* ServerError statuses 0..MaxStatus in SpecErr
MaxRetries == 3      \* max_retries in 0..MaxRetries
MaxBackoff == 3      \* initial_backoff, max_backoff in 0..MaxBackoff
MaxHint == 2         \* retry_after hints in 0..MaxHint
MaxClientRetries == 1  \* the client's max_retries in 0..MaxClientRetries
MaxLiquidity == 2    \* summed liquidity of a corridor in 0..MaxLiquidity

Callers == {1, 2}

(***************************************************************************)
(* RpcError (error.rs:5-13).  Ok stands for Result::Ok of the wrapped      *)
(* operation; NoResult for "no result yet".                                *)
(***************************************************************************)
Ok == [kind |-> "Ok"]
NoResult == [kind |-> "None"]
NetworkError == [kind |-> "NetworkError"]
RateLimitError(retry_after) == [kind |-> "RateLimitError", retry_after |-> retry_after]
ServerError(status) == [kind |-> "ServerError", status |-> status]
ParseError == [kind |-> "ParseError"]
TimeoutError == [kind |-> "TimeoutError"]
CircuitBreakerOpen == [kind |-> "CircuitBreakerOpen"]

\* Option<Duration>
None == <<>>
Some(d) == <<d>>

\* mutant: rate limiting left out of the transient errors
is_transient_no_rate_limit(e) == e.kind \in {"NetworkError", "TimeoutError"}

is_transient(e) == e.kind \in {"NetworkError", "TimeoutError", "RateLimitError"}

is_retryable(e) ==
    \/ is_transient(e)
    \/ (e.kind = "ServerError" /\ e.status >= 500)

(***************************************************************************)
(* CircuitState (circuit_breaker.rs:33-38)                                 *)
(***************************************************************************)
Closed(failure_count) == [tag |-> "Closed", failure_count |-> failure_count]
Open(opened_at) == [tag |-> "Open", opened_at |-> opened_at]
HalfOpen(success_count) == [tag |-> "HalfOpen", success_count |-> success_count]

\* opened_at.elapsed(): time since an Instant, on the monotonic clock
elapsed(opened_at) == now - opened_at

\* mutant: the timeout comparison inverted
is_open_inverted(st) ==
    IF st.tag = "Open"
    THEN IF elapsed(st.opened_at) < config.timeout_duration THEN FALSE ELSE TRUE
    ELSE FALSE

\* is_open: the value returned (true: the call is rejected)
is_open(st) ==
    IF st.tag = "Open"
    THEN IF elapsed(st.opened_at) >= config.timeout_duration THEN FALSE ELSE TRUE
    ELSE FALSE

\* mutant: the state is set before the timeout is looked at
is_open_state_unchecked(st) == IF st.tag = "Open" THEN HalfOpen(0) ELSE st

\* mutant: the admitted probe is counted as a success already
is_open_state_counts_probe(st) ==
    IF st.tag = "Open" /\ elapsed(st.opened_at) >= config.timeout_duration
    THEN HalfOpen(1)
    ELSE st

\* is_open: the state it leaves behind under the lock
is_open_state(st) ==
    IF st.tag = "Open" /\ elapsed(st.opened_at) >= config.timeout_duration
    THEN HalfOpen(0)
    ELSE st

\* mutant: > for >= in the success_threshold comparison
on_success_strict(st) ==
    IF st.tag = "HalfOpen"
    THEN IF st.success_count + 1 > config.success_threshold
         THEN Closed(0)
         ELSE HalfOpen(st.success_count + 1)
    ELSE Closed(0)

\* mutant: a success while Closed leaves failure_count as it is
on_success_keeps_count(st) ==
    IF st.tag = "HalfOpen"
    THEN IF st.success_count + 1 >= config.success_threshold
         THEN Closed(0)
         ELSE HalfOpen(st.success_count + 1)
    ELSE IF st.tag = "Closed" THEN st ELSE Closed(0)

on_success(st) ==
    IF st.tag = "HalfOpen"
    THEN IF st.success_count + 1 >= config.success_threshold
         THEN Closed(0)
         ELSE HalfOpen(st.success_count + 1)
    ELSE Closed(0)

\* mutant: > for >= in the failure_threshold comparison
on_failure_strict(st) ==
    CASE st.tag = "Closed" ->
            IF st.failure_count + 1 > config.failure_threshold
            THEN Open(now)
            ELSE Closed(st.failure_count + 1)
      [] st.tag = "HalfOpen" -> Open(now)
      [] OTHER -> Open(st.opened_at)

\* mutant: a failed probe restarts the probing instead of reopening
on_failure_probe_again(st) ==
    CASE st.tag = "Closed" ->
            IF st.failure_count + 1 >= config.failure_threshold
            THEN Open(now)
            ELSE Closed(st.failure_count + 1)
      [] st.tag = "HalfOpen" -> HalfOpen(0)
      [] OTHER -> Open(st.opened_at)

\* mutant: a failure reported while Open stamps a new opened_at
on_failure_restamps(st) ==
    CASE st.tag = "Closed" ->
            IF st.failure_count + 1 >= config.failure_threshold
            THEN Open(now)
            ELSE Closed(st.failure_count + 1)
      [] st.tag = "HalfOpen" -> Open(now)
      [] OTHER -> Open(now)

on_failure(st) ==
    CASE st.tag = "Closed" ->
            IF st.failure_count + 1 >= config.failure_threshold
            THEN Open(now)
            ELSE Closed(st.failure_count + 1)
      [] st.tag = "HalfOpen" -> Open(now)
      [] OTHER -> Open(st.opened_at)

\* mutant: every error of the wrapped operation is counted
counts_as_failure_always(e) == TRUE

\* the condition guarding on_failure in call (circuit_breaker.rs:73)
counts_as_failure(e) == is_retryable(e)

state_value_locked(st) ==
    CASE st.tag = "Closed" -> 0
      [] st.tag = "Open" -> 1
      [] OTHER -> 2

(***************************************************************************)
(* Results the wrapped operation of a breaker call may produce.            *)
(***************************************************************************)
OpResults ==
    { Ok, TimeoutError, RateLimitError(None), ServerError(503),
      ServerError(404), ParseError, CircuitBreakerOpen }

\* CircuitBreaker::new
BreakerInit ==
    /\ config \in [ failure_threshold : 0..MaxThreshold,
                    success_threshold : 0..MaxThreshold,
                    timeout_duration  : 0..MaxTimeout ]
    /\ state = Closed(0)
    /\ now = 0
    /\ pc = [p \in Callers |-> "idle"]
    /\ res = [p \in Callers |-> NoResult]
    /\ published = -1

(***************************************************************************)
(* CircuitBreaker::call, one step per stretch between suspension points.   *)
(***************************************************************************)
\* CircuitBreakerConfig::half_open_max_calls, as in the tests of the module
half_open_max_calls == 1

\* mutant: the lock is kept while a wrapped operation is pending
call_enter_serialised(p) ==
    /\ pc[p] \in {"idle", "done"}
    /\ \A q \in Callers : pc[q] # "running"
    /\ state' = is_open_state(state)
    /\ IF is_open(state)
       THEN /\ pc' = [pc EXCEPT ![p] = "done"]
            /\ res' = [res EXCEPT ![p] = CircuitBreakerOpen]
       ELSE /\ pc' = [pc EXCEPT ![p] = "running"]
            /\ res' = [res EXCEPT ![p] = NoResult]
    /\ UNCHANGED <<config, now, published>>

\* call entry: is_open() under the lock; rejected, or f starts
call_enter(p) ==
    /\ pc[p] \in {"idle", "done"}
    /\ state' = is_open_state(state)
    /\ IF is_open(state)
       THEN /\ pc' = [pc EXCEPT ![p] = "done"]
            /\ res' = [res EXCEPT ![p] = CircuitBreakerOpen]
       ELSE /\ pc' = [pc EXCEPT ![p] = "running"]
            /\ res' = [res EXCEPT ![p] = NoResult]
    /\ UNCHANGED <<config, now, published>>

\* f.await resolves with r
call_resolve(p, r) ==
    /\ pc[p] = "running"
    /\ pc' = [pc EXCEPT ![p] = "got"]
    /\ res' = [res EXCEPT ![p] = r]
    /\ UNCHANGED <<config, state, now, published>>

\* the match on f's result: on_success / on_failure under the lock, return
call_finish(p) ==
    /\ pc[p] = "got"
    /\ pc' = [pc EXCEPT ![p] = "done"]
    /\ IF res[p] = Ok
       THEN /\ state' = on_success(state)
            /\ published' = state_value_locked(on_success(state))
       ELSE IF counts_as_failure(res[p])
       THEN /\ state' = on_failure(state)
            /\ published' = state_value_locked(on_failure(state))
       ELSE UNCHANGED <<state, published>>
    /\ UNCHANGED <<config, now, res>>

\* the monotonic clock advances
Tick ==
    /\ now < MaxTime
    /\ now' = now + 1
    /\ UNCHANGED <<config, state, pc, res, published>>

(***************************************************************************)
(* Observer of one-at-a-time runs: counts outcomes of completed calls.     *)
(* Both counters saturate at ObsCap, above every threshold.                *)
(***************************************************************************)
ObsCap == MaxThreshold + 1
Bump(n) == IF n < ObsCap THEN n + 1 ELSE n

ObserverInit ==
    /\ consec = 0
    /\ halfSucc = -1
    /\ wiped = -1
    /\ probes = 0

ObserveEnter ==
    /\ halfSucc' = IF state.tag = "Open" /\ state'.tag = "HalfOpen" THEN 0 ELSE halfSucc
    /\ probes' = IF state'.tag = "HalfOpen"
                 THEN (IF state.tag = "Open" THEN 1 ELSE Bump(probes))
                 ELSE probes
    /\ UNCHANGED <<consec, wiped>>

ObserveFinish(p) ==
    /\ probes' = IF state'.tag = "HalfOpen" THEN probes ELSE 0
    /\ IF res[p] = Ok
       THEN /\ consec' = 0
            /\ halfSucc' = IF halfSucc = -1 THEN -1 ELSE Bump(halfSucc)
            /\ wiped' = consec
       ELSE IF is_retryable(res[p])
       THEN /\ consec' = Bump(consec)
            /\ UNCHANGED <<halfSucc, wiped>>
       ELSE UNCHANGED <<consec, halfSucc, wiped>>

(***************************************************************************)
(* error.rs as a pure function: the errors drawn, and the application.     *)
(***************************************************************************)
Hints == {None} \cup {Some(d) : d \in 0..MaxHint}

AllErrors ==
    {NetworkError, TimeoutError, ParseError, CircuitBreakerOpen}
        \cup {RateLimitError(h) : h \in Hints}
        \cup {ServerError(s) : s \in 0..MaxStatus}

ErrIdle ==
    /\ e_in = NoResult
    /\ e_out = None

ErrInit ==
    /\ e_in \in AllErrors
    /\ e_out = None

Classify ==
    /\ e_in # NoResult
    /\ e_out = None
    /\ e_out' = Some(is_retryable(e_in))
    /\ UNCHANGED <<e_in, breakerVars, observerVars, retryVars, respVars, clientVars, monitorVars, cycleVars, checkVars, channelVars>>

(***************************************************************************)
(* retry.rs: retry_with_backoff                                            *)
(***************************************************************************)
Min(a, b) == IF a <= b THEN a ELSE b

\* RpcError::retry_after: the hint of a RateLimitError, None for the rest
retry_after(e) == IF e.kind = "RateLimitError" THEN e.retry_after ELSE None

\* mutant: the hint of a rate-limit error ignored
sleep_duration_ignores_hint(e, bo) == bo

\* the sleep_duration chosen at retry.rs:31-35
sleep_duration(e, bo) == IF retry_after(e) # None THEN retry_after(e)[1] ELSE bo

\* mutant: the retrying arm taken for every error while attempts remain
should_retry_any_error(e, att, max_retries) == att < max_retries

\* mutant: the retrying arm never taken
should_retry_never(e, att, max_retries) == FALSE

\* mutant: one retry fewer than max_retries
should_retry_one_fewer(e, att, max_retries) == is_retryable(e) /\ att + 1 < max_retries

\* the guard of the retrying match arm, retry.rs:28
should_retry(e, att, max_retries) == is_retryable(e) /\ att < max_retries

\* the backoff update at retry.rs:43
next_backoff(bo, max_backoff) == Min(bo * 2, max_backoff)

RetryResults ==
    {Ok, NetworkError, TimeoutError, ParseError, CircuitBreakerOpen,
     ServerError(404), ServerError(500)}
        \cup {RateLimitError(h) : h \in Hints}

RetryIdle ==
    /\ rcfg = [max_retries |-> 0, initial_backoff |-> 0, max_backoff |-> 0]
    /\ attempt = 0
    /\ backoff = 0
    /\ rpc = "idle"
    /\ rlast = NoResult
    /\ invocations = 0
    /\ sleeps = <<>>
    /\ hinted = FALSE
    /\ rresult = NoResult

\* entry of retry_with_backoff up to the first f().await
RetryInit ==
    /\ rcfg \in [ max_retries     : 0..MaxRetries,
                  initial_backoff : 0..MaxBackoff,
                  max_backoff     : 0..MaxBackoff ]
    /\ attempt = 0
    /\ backoff = rcfg.initial_backoff
    /\ rpc = "await"
    /\ rlast = NoResult
    /\ invocations = 1
    /\ sleeps = <<>>
    /\ hinted = FALSE
    /\ rresult = NoResult

\* f().await resolves with r: return, or start the sleep before the next try
retry_resolve(r) ==
    /\ rpc = "await"
    /\ rlast' = r
    /\ IF r = Ok
       THEN /\ rresult' = Ok
            /\ rpc' = "done"
            /\ UNCHANGED <<attempt, sleeps, hinted>>
       ELSE IF should_retry(r, attempt, rcfg.max_retries)
       THEN /\ attempt' = attempt + 1
            /\ sleeps' = Append(sleeps, sleep_duration(r, backoff))
            /\ hinted' = (hinted \/ retry_after(r) # None)
            /\ rpc' = "sleep"
            /\ UNCHANGED rresult
       ELSE /\ rresult' = r
            /\ rpc' = "done"
            /\ UNCHANGED <<attempt, sleeps, hinted>>
    /\ UNCHANGED <<rcfg, backoff, invocations>>

\* the sleep ends: backoff doubles up to max_backoff, f() is invoked again
retry_wake ==
    /\ rpc = "sleep"
    /\ backoff' = next_backoff(backoff, rcfg.max_backoff)
    /\ invocations' = invocations + 1
    /\ rpc' = "await"
    /\ UNCHANGED <<rcfg, attempt, rlast, sleeps, hinted, rresult>>

RetryResolve(r) == retry_resolve(r) /\ UNCHANGED <<breakerVars, observerVars, errVars, respVars, clientVars, monitorVars, cycleVars, checkVars, channelVars>>
RetryWake == retry_wake /\ UNCHANGED <<breakerVars, observerVars, errVars, respVars, clientVars, monitorVars, cycleVars, checkVars, channelVars>>

(***************************************************************************)
(* error.rs: with_retry, run by one caller on a breaker of its own.  The   *)
(* wrapped operation returns the same result, e_in, at every invocation.   *)
(* rcfg is the RetryConfig; attempt counts the entries of                  *)
(* circuit_breaker.call, invocations the runs of the operation.            *)
(***************************************************************************)
\* results of the wrapped operation
WithRetryOutcomes ==
    {Ok, NetworkError, TimeoutError, RateLimitError(None), RateLimitError(Some(MaxHint)),
     ServerError(503), ServerError(404), ParseError}

\* 2u64.saturating_pow(exp); the products stay far below u64::MAX here
RECURSIVE saturating_pow2(_)
saturating_pow2(exp) == IF exp = 0 THEN 1 ELSE 2 * saturating_pow2(exp - 1)

\* mutant: the delay doubles from the second sleep on only
with_retry_delay_late(cfg, att) ==
    Min(cfg.base_delay_ms * saturating_pow2(IF att >= 2 THEN att - 2 ELSE 0), cfg.max_delay_ms)

\* the delay slept after the attempt-th call has failed
with_retry_delay(cfg, att) ==
    Min(cfg.base_delay_ms * saturating_pow2(IF att >= 1 THEN att - 1 ELSE 0), cfg.max_delay_ms)

\* mutant: is_retryable decides, so a ServerError of status >= 500 is retried
with_retry_returns_unless_retryable(e, att, max_attempts) ==
    ~is_retryable(e) \/ att >= max_attempts

\* `!e.is_transient() || attempt >= config.max_attempts`
with_retry_returns(e, att, max_attempts) ==
    ~is_transient(e) \/ att >= max_attempts

\* with_retry is entered: a new breaker, nothing called yet
WithRetryInit ==
    /\ rcfg \in [ max_attempts  : 0..MaxRetries,
                  base_delay_ms : 0..MaxBackoff,
                  max_delay_ms  : 0..MaxBackoff ]
    /\ e_in \in WithRetryOutcomes
    /\ e_out = None
    /\ attempt = 0
    /\ backoff = 0
    /\ rpc = "start"
    /\ rlast = NoResult
    /\ invocations = 0
    /\ sleeps = <<>>
    /\ hinted = FALSE
    /\ rresult = NoResult
    /\ config \in [ failure_threshold : 1..(MaxRetries + 1),
                    success_threshold : {1},
                    timeout_duration  : 1..MaxTimeout ]
    /\ state = Closed(0)
    /\ now = 0
    /\ pc = [p \in Callers |-> "idle"]
    /\ res = [p \in Callers |-> NoResult]
    /\ published = -1

\* top of the loop, at entry or after the sleep: attempt += 1 and
\* circuit_breaker.call is entered; a rejection is an Err that is never
\* transient, so with_retry returns it
with_retry_call(p) ==
    /\ rpc \in {"start", "sleep"}
    /\ attempt' = attempt + 1
    /\ call_enter(p)
    /\ IF is_open(state)
       THEN /\ rlast' = CircuitBreakerOpen
            /\ rresult' = CircuitBreakerOpen
            /\ rpc' = "done"
            /\ UNCHANGED invocations
       ELSE /\ invocations' = invocations + 1
            /\ rpc' = "await"
            /\ UNCHANGED <<rlast, rresult>>
    /\ UNCHANGED <<rcfg, backoff, sleeps, hinted>>

\* the operation resolves inside call()
with_retry_resolve(p) ==
    /\ rpc = "await"
    /\ call_resolve(p, e_in)
    /\ rpc' = "got"
    /\ UNCHANGED <<rcfg, attempt, backoff, rlast, invocations, sleeps, hinted, rresult>>

\* call() settles the breaker and returns; `match result`: return, or
\* compute the delay and sleep
with_retry_match(p) ==
    /\ rpc = "got"
    /\ call_finish(p)
    /\ rlast' = res[p]
    /\ IF res[p] = Ok \/ with_retry_returns(res[p], attempt, rcfg.max_attempts)
       THEN /\ rresult' = res[p]
            /\ rpc' = "done"
            /\ UNCHANGED sleeps
       ELSE /\ sleeps' = Append(sleeps, with_retry_delay(rcfg, attempt))
            /\ rpc' = "sleep"
            /\ UNCHANGED rresult
    /\ UNCHANGED <<rcfg, attempt, backoff, invocations, hinted>>

\* time passes while with_retry sleeps or waits for the operation
with_retry_clock ==
    /\ rpc \in {"await", "sleep"}
    /\ Tick
    /\ UNCHANGED retryVars

\* with_retry leaves every other component alone
WithRetryFrame ==
    UNCHANGED <<observerVars, errVars, respVars, clientVars, monitorVars, cycleVars, checkVars, channelVars>>

(***************************************************************************)
(* stellar.rs: one HTTP exchange.  get_once / post_once turn what the      *)
(* transport delivered into a response or an RpcError; the JSON-RPC        *)
(* operations then decode the envelope.                                    *)
(***************************************************************************)
\* RpcError::JsonRpcError { code, message }, constructed at stellar.rs:410
JsonRpcError(code, message) ==
    [kind |-> "JsonRpcError", code |-> code, message |-> message]

\* Ok(result) of an operation that returns data
OkValue(v) == [kind |-> "Ok", value |-> v]

\* Ok(response) of get_once / post_once
Response(body) == [kind |-> "Response", body |-> body]

\* reqwest::StatusCode::is_success
is_success(status) == status \in 200..299

response_to_error(status) ==
    IF status = 429
    THEN RateLimitError(None)
    ELSE IF status \in 500..599
    THEN ServerError(status)
    ELSE ServerError(status)

\* get_once and post_once share this body
get_once(r) ==
    IF r.transport = "timeout" THEN TimeoutError
    ELSE IF r.transport = "failed" THEN NetworkError
    ELSE IF is_success(r.status) THEN Response(r.body)
    ELSE response_to_error(r.status)

\* a body that resp.json() cannot decode as JsonRpcResponse<T>
Undecodable == [undecodable |-> TRUE]

\* mutant: a present result wins over a present error
json_rpc_result_prefers_result(body) ==
    IF body = Undecodable THEN ParseError
    ELSE IF body.result # None THEN OkValue(body.result[1])
    ELSE IF body.error # None THEN JsonRpcError(body.error[1].code, body.error[1].message)
    ELSE ParseError

\* resp.json() and the handling of JsonRpcResponse<T>
json_rpc_result(body) ==
    IF body = Undecodable THEN ParseError
    ELSE IF body.error # None THEN JsonRpcError(body.error[1].code, body.error[1].message)
    ELSE IF body.result # None THEN OkValue(body.result[1])
    ELSE ParseError

check_health_internal(r) ==
    LET resp == get_once(r)
    IN  IF resp.kind # "Response" THEN resp ELSE json_rpc_result(resp.body)

\* JsonRpcResponse<T> as decoded: the Option fields error and result
Envelopes ==
    [ error  : {None} \cup {Some([code |-> c, message |-> m]) :
                                c \in {-32600, 0}, m \in {"m1", "m2"}},
      result : {None} \cup {Some(v) : v \in {"r1", "r2"}} ]

Bodies == {Undecodable} \cup Envelopes

\* what reqwest's send() can deliver
Deliveries ==
    {[transport |-> "timeout"], [transport |-> "failed"]}
        \cup [transport : {"response"}, status : 100..MaxStatus, body : Bodies]

RespIdle ==
    /\ resp_in = [transport |-> "none"]
    /\ resp_out = None

RespInit ==
    /\ resp_in \in Deliveries
    /\ resp_out = None

\* check_health_internal applied to the drawn delivery
Respond ==
    /\ resp_in # [transport |-> "none"]
    /\ resp_out = None
    /\ resp_out' = Some(check_health_internal(resp_in))
    /\ UNCHANGED <<resp_in, breakerVars, observerVars, errVars, retryVars, clientVars, monitorVars, cycleVars, checkVars, channelVars>>

(***************************************************************************)
(* stellar.rs: the public operations of StellarRpcClient (check_health and *)
(* the fetch_* operations, which share with_circuit_and_retry).  One       *)
(* CircuitBreaker::call wraps the whole retry_with_backoff run; sleeps     *)
(* take any time the clock allows, so their durations are not kept here.   *)
(***************************************************************************)
RPC_ENDPOINT == "stellar"

\* one call of metrics::record_rpc_error(RPC_ENDPOINT, e)
MetricsRecord(e) == [endpoint |-> RPC_ENDPOINT, error |-> e]

\* mutant: mock_mode never consulted
returns_mock_never(m) == FALSE

\* `if self.mock_mode { return Ok(Self::mock_..()) }`
returns_mock(m) == m

\* mutant: a breaker rejection not recorded
records_error_unless_rejected(result) == result \notin {Ok, CircuitBreakerOpen}

\* `if let Err(ref e) = result`
records_error(result) == result # Ok

\* what record_rpc_error has been given once the operation returns `result`
recorded_for(result) ==
    IF records_error(result) THEN <<MetricsRecord(result)>> ELSE <<>>

\* results of one try of an *_internal operation
ClientResults == {Ok, TimeoutError, ParseError}

ClientIdle ==
    /\ mock_mode = FALSE
    /\ cmax_retries = 0
    /\ cpc = [p \in Callers |-> "idle"]
    /\ cattempt = [p \in Callers |-> 0]
    /\ requests = [p \in Callers |-> 0]
    /\ recorded = [p \in Callers |-> <<>>]
    /\ cres = [p \in Callers |-> NoResult]

\* StellarRpcClient::new_with_config
ClientInit ==
    /\ mock_mode \in BOOLEAN
    /\ cmax_retries \in 0..MaxClientRetries
    /\ cpc = [p \in Callers |-> "idle"]
    /\ cattempt = [p \in Callers |-> 0]
    /\ requests = [p \in Callers |-> 0]
    /\ recorded = [p \in Callers |-> <<>>]
    /\ cres = [p \in Callers |-> NoResult]
    /\ config \in [ failure_threshold : 1..MaxThreshold,
                    success_threshold : 1..MaxThreshold,
                    timeout_duration  : 1..MaxTimeout ]
    /\ state = Closed(0)
    /\ now = 0
    /\ pc = [p \in Callers |-> "idle"]
    /\ res = [p \in Callers |-> NoResult]
    /\ published = -1

\* entry of a public operation: the mock return, or circuit_breaker.call is
\* entered and, if admitted, the first try sends its request
client_start(p) ==
    /\ cpc[p] \in {"idle", "done"}
    /\ cattempt' = [cattempt EXCEPT ![p] = 0]
    /\ IF returns_mock(mock_mode)
       THEN /\ cpc' = [cpc EXCEPT ![p] = "done"]
            /\ cres' = [cres EXCEPT ![p] = Ok]
            /\ requests' = [requests EXCEPT ![p] = 0]
            /\ recorded' = [recorded EXCEPT ![p] = <<>>]
            /\ UNCHANGED breakerVars
       ELSE /\ call_enter(p)
            /\ IF is_open(state)
               THEN /\ cpc' = [cpc EXCEPT ![p] = "done"]
                    /\ cres' = [cres EXCEPT ![p] = CircuitBreakerOpen]
                    /\ requests' = [requests EXCEPT ![p] = 0]
                    /\ recorded' = [recorded EXCEPT ![p] = recorded_for(CircuitBreakerOpen)]
               ELSE /\ cpc' = [cpc EXCEPT ![p] = "await"]
                    /\ cres' = [cres EXCEPT ![p] = NoResult]
                    /\ requests' = [requests EXCEPT ![p] = 1]
                    /\ recorded' = [recorded EXCEPT ![p] = <<>>]
    /\ UNCHANGED <<mock_mode, cmax_retries>>

\* mutant: every failed try is reported to the breaker
client_resolve_counts_each(p, r) ==
    /\ cpc[p] = "await"
    /\ IF r # Ok /\ should_retry(r, cattempt[p], cmax_retries)
       THEN /\ cattempt' = [cattempt EXCEPT ![p] = cattempt[p] + 1]
            /\ cpc' = [cpc EXCEPT ![p] = "sleep"]
            /\ state' = on_failure(state)
            /\ published' = state_value_locked(state')
            /\ UNCHANGED <<config, now, pc, res>>
       ELSE /\ call_resolve(p, r)
            /\ cpc' = [cpc EXCEPT ![p] = "got"]
            /\ UNCHANGED cattempt
    /\ UNCHANGED <<mock_mode, cmax_retries, requests, recorded, cres>>

\* a try resolves with r: retry_with_backoff sleeps, or returns r to call()
client_resolve(p, r) ==
    /\ cpc[p] = "await"
    /\ IF r # Ok /\ should_retry(r, cattempt[p], cmax_retries)
       THEN /\ cattempt' = [cattempt EXCEPT ![p] = cattempt[p] + 1]
            /\ cpc' = [cpc EXCEPT ![p] = "sleep"]
            /\ UNCHANGED breakerVars
       ELSE /\ call_resolve(p, r)
            /\ cpc' = [cpc EXCEPT ![p] = "got"]
            /\ UNCHANGED cattempt
    /\ UNCHANGED <<mock_mode, cmax_retries, requests, recorded, cres>>

\* the sleep ends: the next try sends its request
client_wake(p) ==
    /\ cpc[p] = "sleep"
    /\ requests' = [requests EXCEPT ![p] = requests[p] + 1]
    /\ cpc' = [cpc EXCEPT ![p] = "await"]
    /\ UNCHANGED <<breakerVars, mock_mode, cmax_retries, cattempt, recorded, cres>>

\* call() settles the breaker and returns; an Err is recorded; return
client_finish(p) ==
    /\ cpc[p] = "got"
    /\ call_finish(p)
    /\ cpc' = [cpc EXCEPT ![p] = "done"]
    /\ cres' = [cres EXCEPT ![p] = res[p]]
    /\ recorded' = [recorded EXCEPT ![p] = recorded_for(res[p])]
    /\ UNCHANGED <<mock_mode, cmax_retries, cattempt, requests>>

\* the client's steps leave every other component alone
ClientFrame ==
    UNCHANGED <<observerVars, errVars, retryVars, respVars, monitorVars, cycleVars, checkVars, channelVars>>

(***************************************************************************)
(* alerts.rs: AlertManager.  An alert is kept without its message and      *)
(* timestamp.                                                              *)
(***************************************************************************)
Alert(alert_type, corridor_id, anchor_id, old_value, new_value) ==
    [ alert_type |-> alert_type, corridor_id |-> corridor_id,
      anchor_id |-> anchor_id, old_value |-> old_value, new_value |-> new_value ]

\* mutant: a success-rate drop of exactly 10 points alerts too
check_and_alert_inclusive(corridor_id, old_success, new_success, old_latency, new_latency, old_liquidity, new_liquidity) ==
    (IF new_success <= old_success - 10
     THEN <<Alert("SuccessRateDrop", Some(corridor_id), None, old_success, new_success)>>
     ELSE <<>>)
    \o (IF 2 * new_latency > 3 * old_latency
        THEN <<Alert("LatencyIncrease", Some(corridor_id), None, old_latency, new_latency)>>
        ELSE <<>>)
    \o (IF 10 * new_liquidity < 7 * old_liquidity
        THEN <<Alert("LiquidityDecrease", Some(corridor_id), None, old_liquidity, new_liquidity)>>
        ELSE <<>>)

\* the alerts check_and_alert gives to tx.send, in order; x * 1.5 and
\* x * 0.7 are compared in integers
check_and_alert(corridor_id, old_success, new_success, old_latency, new_latency, old_liquidity, new_liquidity) ==
    (IF new_success < old_success - 10
     THEN <<Alert("SuccessRateDrop", Some(corridor_id), None, old_success, new_success)>>
     ELSE <<>>)
    \o (IF 2 * new_latency > 3 * old_latency
        THEN <<Alert("LatencyIncrease", Some(corridor_id), None, old_latency, new_latency)>>
        ELSE <<>>)
    \o (IF 10 * new_liquidity < 7 * old_liquidity
        THEN <<Alert("LiquidityDecrease", Some(corridor_id), None, old_liquidity, new_liquidity)>>
        ELSE <<>>)

\* mutant: a value of exactly 90 counts as healthy
status_of_inclusive(value) == IF value >= 90 THEN "healthy" ELSE "degraded"

\* "healthy" / "degraded" as chosen in send_anchor_alert
status_of(value) == IF value > 90 THEN "healthy" ELSE "degraded"

\* send_anchor_alert: the alert sent, and the task spawned when the
\* manager has a webhook service
send_anchor_alert(alert_type, anchor_id, old_value, new_value) ==
    [ sent    |-> <<Alert(alert_type, None, Some(anchor_id), old_value, new_value)>>,
      spawned |-> IF webhooks.alerts
                  THEN {[ trigger |-> "anchor_status_changed", id |-> anchor_id,
                          old_status |-> status_of(old_value),
                          new_status |-> status_of(new_value),
                          new_value |-> new_value ]}
                  ELSE {} ]

(***************************************************************************)
(* monitor.rs: CorridorMonitor.  The fetched page is kept as corridor_map  *)
(* with each corridor's summed liquidity (monitor.rs:74-95).               *)
(***************************************************************************)
Corridors == {"USDC:GA->XLM:native", "XLM:native->XLM:native"}

\* mutant: the liquidity of the page is not summed
CorridorState_flat(liquidity) ==
    [success_rate |-> 100, latency |-> 400 + (100 * 2), liquidity |-> 0]

\* mutant: the success rate follows the liquidity of the page
CorridorState_varying(liquidity) ==
    [success_rate |-> 100 - (20 * liquidity), latency |-> 400 + (100 * 2), liquidity |-> liquidity]

\* CorridorState derived for a corridor of the page
CorridorState(liquidity) ==
    [success_rate |-> 100, latency |-> 400 + (100 * 2), liquidity |-> liquidity]

\* mutant: an existing snapshot is kept
inserted_keeps_first(old, new) == IF old = None THEN Some(new) ELSE old

\* HashMap::insert: the entry after the insert
inserted(old, new) == Some(new)

\* corridor_map values: any subset of the corridors, any liquidity
Pages ==
    UNION { [cs -> 0..MaxLiquidity] : cs \in SUBSET Corridors }

\* mutant: a corridor without a snapshot compared against a full one
prev_state_get_or_full(prev, corridor_id) ==
    IF prev[corridor_id] = None
    THEN Some(CorridorState(MaxLiquidity))
    ELSE prev[corridor_id]

\* prev_state.get(&corridor_id)
prev_state_get(prev, corridor_id) == prev[corridor_id]

\* alerts of one loop iteration
corridor_alerts(prev, corridor_id, liquidity) ==
    LET old == prev_state_get(prev, corridor_id)
        new == CorridorState(liquidity)
    IN  IF old # None
        THEN check_and_alert(corridor_id, old[1].success_rate, new.success_rate,
                             old[1].latency, new.latency,
                             old[1].liquidity, new.liquidity)
        ELSE <<>>

\* tasks spawned by one loop iteration for a monitor with a webhook service;
\* check_corridor_degradation is not part of these sources: `degraded` is
\* its outcome
corridor_spawns(prev, corridor_id, liquidity, degraded) ==
    LET old == prev_state_get(prev, corridor_id)
    IN  IF old # None /\ webhooks.monitor
        THEN (IF degraded
              THEN {[trigger |-> "corridor_health_degraded", id |-> corridor_id]}
              ELSE {})
             \cup
             (IF old[1].liquidity > 0
                 /\ 10 * (old[1].liquidity - liquidity) > 3 * old[1].liquidity
              THEN {[trigger |-> "corridor_liquidity_dropped", id |-> corridor_id]}
              ELSE {})
        ELSE {}

\* the iteration orders a HashMap of these keys can have
Orders(keys) ==
    { o \in [1..Cardinality(keys) -> keys] :
          \A i, j \in 1..Cardinality(keys) : i # j => o[i] # o[j] }

RECURSIVE alerts_in_order(_, _, _)
alerts_in_order(prev, pg, order) ==
    IF order = <<>>
    THEN <<>>
    ELSE corridor_alerts(prev, Head(order), pg[Head(order)])
            \o alerts_in_order(prev, pg, Tail(order))

\* ticker.tick().await returns: check_corridors starts its fetch
corridor_tick ==
    /\ mpc = "ticker"
    /\ mpc' = "fetching"
    /\ sent' = <<>>
    /\ spawned' = {}
    /\ UNCHANGED <<webhooks, previous_state, last_metrics, page, apc, todo>>

\* mutant: the error of a failed cycle ends the task
corridor_fetch_failed_stops ==
    /\ mpc = "fetching"
    /\ mpc' = "stopped"
    /\ sent' = <<>>
    /\ spawned' = {}
    /\ UNCHANGED <<webhooks, previous_state, last_metrics, page, apc, todo>>

\* mutant: a failed cycle forgets the snapshots
corridor_fetch_failed_clears ==
    /\ mpc = "fetching"
    /\ mpc' = "ticker"
    /\ sent' = <<>>
    /\ spawned' = {}
    /\ previous_state' = [c \in Corridors |-> None]
    /\ UNCHANGED <<webhooks, last_metrics, page, apc, todo>>

\* fetch_payments fails: `?` ends the cycle, start() logs the error
corridor_fetch_failed ==
    /\ mpc = "fetching"
    /\ mpc' = "ticker"
    /\ sent' = <<>>
    /\ spawned' = {}
    /\ UNCHANGED <<webhooks, previous_state, last_metrics, page, apc, todo>>

\* fetch_payments returns: corridor_map is built, the write lock is awaited
corridor_fetched(pg) ==
    /\ mpc = "fetching"
    /\ mpc' = "locking"
    /\ page' = pg
    /\ sent' = <<>>
    /\ spawned' = {}
    /\ UNCHANGED <<webhooks, previous_state, last_metrics, apc, todo>>

\* the loop of check_corridors under the write lock
check_corridors(order, degraded) ==
    /\ mpc = "locking"
    /\ order \in Orders(DOMAIN page)
    /\ sent' = alerts_in_order(previous_state, page, order)
    /\ spawned' = UNION { corridor_spawns(previous_state, c, page[c], degraded[c]) :
                             c \in DOMAIN page }
    /\ previous_state' = [ c \in Corridors |->
                             IF c \in DOMAIN page
                             THEN inserted(previous_state[c], CorridorState(page[c]))
                             ELSE previous_state[c] ]
    /\ mpc' = "ticker"
    /\ page' = <<>>
    /\ UNCHANGED <<webhooks, last_metrics, apc, todo>>

(***************************************************************************)
(* services/anchor_monitor.rs: AnchorMonitor.                              *)
(***************************************************************************)
Anchors == {"a1", "a2"}

\* current_metrics of check_anchors
current_metrics ==
    [transaction_count |-> 0, success_rate |-> 0, avg_latency |-> 0]

\* mutant: a latency of exactly 1.5 times the previous one alerts too
anchor_sends_inclusive(anchor_id) ==
    LET prev == last_metrics[anchor_id]
    IN  IF prev = None
        THEN <<>>
        ELSE (IF current_metrics.success_rate < prev[1].success_rate - 10
              THEN <<send_anchor_alert("AnchorMetricChange", anchor_id,
                                       prev[1].success_rate, current_metrics.success_rate)>>
              ELSE <<>>)
             \o
             (IF 2 * current_metrics.avg_latency >= 3 * prev[1].avg_latency
              THEN <<send_anchor_alert("AnchorMetricChange", anchor_id,
                                       prev[1].avg_latency, current_metrics.avg_latency)>>
              ELSE <<>>)

\* the sends of one loop iteration, as records of send_anchor_alert
anchor_sends(anchor_id) ==
    LET prev == last_metrics[anchor_id]
    IN  IF prev = None
        THEN <<>>
        ELSE (IF current_metrics.success_rate < prev[1].success_rate - 10
              THEN <<send_anchor_alert("AnchorMetricChange", anchor_id,
                                       prev[1].success_rate, current_metrics.success_rate)>>
              ELSE <<>>)
             \o
             (IF 2 * current_metrics.avg_latency > 3 * prev[1].avg_latency
              THEN <<send_anchor_alert("AnchorMetricChange", anchor_id,
                                       prev[1].avg_latency, current_metrics.avg_latency)>>
              ELSE <<>>)

RECURSIVE sent_of(_)
sent_of(sends) ==
    IF sends = <<>> THEN <<>> ELSE Head(sends).sent \o sent_of(Tail(sends))

\* check_interval.tick().await returns: check_anchors asks for the anchors
anchor_tick ==
    /\ apc = "ticker"
    /\ apc' = "listing"
    /\ sent' = <<>>
    /\ spawned' = {}
    /\ UNCHANGED <<webhooks, previous_state, last_metrics, mpc, page, todo>>

\* get_all_anchors fails: `?` ends the cycle, start() logs the error
anchor_list_failed ==
    /\ apc = "listing"
    /\ apc' = "ticker"
    /\ sent' = <<>>
    /\ spawned' = {}
    /\ UNCHANGED <<webhooks, previous_state, last_metrics, mpc, page, todo>>

\* get_all_anchors returns the anchors in some order
anchor_listed(anchors) ==
    /\ apc = "listing"
    /\ todo' = anchors
    /\ apc' = IF anchors = <<>> THEN "ticker" ELSE "loop"
    /\ sent' = <<>>
    /\ spawned' = {}
    /\ UNCHANGED <<webhooks, previous_state, last_metrics, mpc, page>>

\* one iteration of the loop of check_anchors, under the write lock
check_anchor ==
    /\ apc = "loop"
    /\ LET anchor_id == Head(todo)
           sends == anchor_sends(anchor_id)
       IN  /\ sent' = sent_of(sends)
           /\ spawned' = UNION { sends[i].spawned : i \in 1..Len(sends) }
           /\ last_metrics' = [last_metrics EXCEPT ![anchor_id] = inserted(@, current_metrics)]
    /\ todo' = Tail(todo)
    /\ apc' = IF Tail(todo) = <<>> THEN "ticker" ELSE "loop"
    /\ UNCHANGED <<webhooks, previous_state, mpc, page>>

MonitorIdle ==
    /\ webhooks = [monitor |-> FALSE, alerts |-> FALSE]
    /\ previous_state = [c \in Corridors |-> None]
    /\ last_metrics = [a \in Anchors |-> None]
    /\ mpc = "idle"
    /\ page = <<>>
    /\ apc = "idle"
    /\ todo = <<>>
    /\ sent = <<>>
    /\ spawned = {}

\* CorridorMonitor::new / new_with_webhooks, AnchorMonitor::new,
\* AlertManager::new / new_with_webhooks; both tasks wait for their first tick
MonitorInit ==
    /\ webhooks \in [monitor : BOOLEAN, alerts : BOOLEAN]
    /\ previous_state = [c \in Corridors |-> None]
    /\ last_metrics = [a \in Anchors |-> None]
    /\ mpc = "ticker"
    /\ page = <<>>
    /\ apc = "ticker"
    /\ todo = <<>>
    /\ sent = <<>>
    /\ spawned = {}

(***************************************************************************)
(* alerts.rs as a pure function: the corridor values drawn, around the     *)
(* three thresholds, and the application of check_and_alert.               *)
(***************************************************************************)
CheckIdle ==
    /\ chk_in = None
    /\ chk_out = None

CheckInit ==
    /\ chk_in \in { Some(i) : i \in
                     [ corridor_id : Corridors,
                       old_success : {70, 80, 84, 85, 95},
                       new_success : {70, 80, 84, 85, 95},
                       old_latency : {100, 150, 151, 400},
                       new_latency : {100, 150, 151, 400},
                       old_liquidity : {0, 650, 700, 750, 1000},
                       new_liquidity : {0, 650, 700, 750, 1000} ] }
    /\ chk_out = None

CheckAndAlert ==
    /\ chk_in # None
    /\ chk_out = None
    /\ LET i == chk_in[1]
       IN  chk_out' = Some(check_and_alert(i.corridor_id,
                                           i.old_success, i.new_success,
                                           i.old_latency, i.new_latency,
                                           i.old_liquidity, i.new_liquidity))
    /\ UNCHANGED <<chk_in, breakerVars, observerVars, errVars, retryVars, respVars, clientVars, monitorVars, cycleVars, channelVars>>

\* cycles a monitor task may be seen failing in a row
MaxFails == 2

\* the observer of SpecMonitor at a step of the CorridorMonitor task: its
\* cycle failed, completed, or neither happened in this step
ObserveCycle(outcome) ==
    /\ fails' = CASE outcome = "failed" -> Min(fails + 1, MaxFails)
                  [] outcome = "completed" -> 0
                  [] OTHER -> fails
    /\ fresh' = CASE outcome = "failed" -> [c \in Corridors |-> FALSE]
                  [] outcome = "completed" -> [c \in Corridors |-> c \in DOMAIN page]
                  [] OTHER -> fresh
    /\ seen' = IF outcome = "completed"
               THEN [ c \in Corridors |->
                        IF c \in DOMAIN page
                        THEN Some([success_rate |-> 100, latency |-> 600,
                                   liquidity |-> page[c]])
                        ELSE seen[c] ]
               ELSE seen

\* the observer of SpecMonitor before the first cycle
CycleIdle ==
    /\ fresh = [c \in Corridors |-> FALSE]
    /\ seen = [c \in Corridors |-> None]
    /\ fails = 0

(***************************************************************************)
(* alerts.rs, services/slack_bot.rs: the AlertManager called directly, its *)
(* broadcast channel and the listeners reading it.  `log` holds every      *)
(* accepted alert, at most Capacity + 1 in one behaviour; the channel       *)
(* retains its last Capacity elements.                                     *)
(***************************************************************************)
\* broadcast::channel(100), scaled down
Capacity == 1
\* spawned tasks that may be pending together
MaxTasks == 1
\* the receiver returned by AlertManager::new and one made by subscribe()
Receivers == {"rx", "sub"}

\* mutant: a new receiver starts at the oldest alert ever sent
Receiver_replays(pos) ==
    [live |-> TRUE, since |-> pos, next |-> 0, lpc |-> "recv", got |-> <<>>]

\* a receiver created when the channel has accepted pos alerts; since and
\* got are history
Receiver(pos) ==
    [live |-> TRUE, since |-> pos, next |-> pos, lpc |-> "recv", got |-> <<>>]

receiver_count == Cardinality({r \in Receivers : rx[r].live})

ChannelIdle ==
    /\ log = <<>>
    /\ rx = [r \in Receivers |-> [Receiver(0) EXCEPT !.live = FALSE, !.lpc = "none"]]
    /\ outcomes = <<>>
    /\ tasks = <<>>

\* AlertManager::new: the channel with its first receiver
ChannelInit ==
    /\ log = <<>>
    /\ rx = [r \in Receivers |->
               IF r = "rx" THEN Receiver(0)
               ELSE [Receiver(0) EXCEPT !.live = FALSE, !.lpc = "none"]]
    /\ outcomes = <<>>
    /\ tasks = <<>>

\* Sender::send: an error when no receiver exists, else the value is stored
tx_send(lg, alert) ==
    IF receiver_count = 0
    THEN [log |-> lg, result |-> "Err"]
    ELSE [log |-> Append(lg, alert), result |-> "Ok"]

\* mutant: the first failed send ends the call
RECURSIVE send_each_propagates(_, _)
send_each_propagates(lg, alerts) ==
    IF alerts = <<>>
    THEN [log |-> lg, outcomes |-> <<>>]
    ELSE LET first == tx_send(lg, Head(alerts))
             rest == send_each_propagates(first.log, Tail(alerts))
         IN  IF first.result = "Err"
             THEN [log |-> first.log, outcomes |-> <<first.result>>]
             ELSE [log |-> rest.log, outcomes |-> <<first.result>> \o rest.outcomes]

\* `let _ = self.tx.send(..)` for each alert of a call, in order
RECURSIVE send_each(_, _)
send_each(lg, alerts) ==
    IF alerts = <<>>
    THEN [log |-> lg, outcomes |-> <<>>]
    ELSE LET first == tx_send(lg, Head(alerts))
             rest == send_each(first.log, Tail(alerts))
         IN  [log |-> rest.log, outcomes |-> <<first.result>> \o rest.outcomes]

\* the argument sets the AlertManager is called with
CheckCases ==
    { [ corridor_id |-> "USDC:GA->XLM:native",
        old_success |-> 95, new_success |-> s,
        old_latency |-> 100, new_latency |-> 100,
        old_liquidity |-> 1000, new_liquidity |-> l ] :
      s \in {95, 80}, l \in {1000, 650} }

AnchorPairs == { <<91, 90>>, <<90, 60>> }

\* a caller runs check_and_alert
alert_corridor(i) ==
    LET alerts == check_and_alert(i.corridor_id, i.old_success, i.new_success,
                                  i.old_latency, i.new_latency,
                                  i.old_liquidity, i.new_liquidity)
        s == send_each(log, alerts)
    IN  /\ receiver_count = 0 \/ Len(log) + Len(alerts) <= Capacity + 1
        /\ log' = s.log
        /\ outcomes' = s.outcomes
        /\ sent' = alerts
        /\ spawned' = {}
        /\ UNCHANGED <<rx, tasks>>

\* a caller runs send_anchor_alert
alert_anchor(old_value, new_value) ==
    LET r == send_anchor_alert("AnchorMetricChange", "a1", old_value, new_value)
        s == send_each(log, r.sent)
    IN  /\ receiver_count = 0 \/ Len(log) + 1 <= Capacity + 1
        /\ Len(tasks) < MaxTasks
        /\ log' = s.log
        /\ outcomes' = s.outcomes
        /\ sent' = r.sent
        /\ spawned' = r.spawned
        /\ tasks' = IF r.spawned = {}
                    THEN tasks
                    ELSE Append(tasks, CHOOSE t \in r.spawned : TRUE)
        /\ UNCHANGED rx

\* the spawned task's trigger_anchor_status_changed returns; an error is logged
trigger_finished(k, ok) ==
    /\ k \in 1..Len(tasks)
    /\ tasks' = SubSeq(tasks, 1, k - 1) \o SubSeq(tasks, k + 1, Len(tasks))
    /\ UNCHANGED <<log, rx, outcomes, sent, spawned>>

\* AlertManager::subscribe
subscribe(r) ==
    /\ rx[r].lpc = "none"
    /\ rx' = [rx EXCEPT ![r] = Receiver(Len(log))]
    /\ UNCHANGED <<log, outcomes, tasks, sent, spawned>>

\* a receiver is dropped without having been listened on further
drop_receiver(r) ==
    /\ rx[r].live
    /\ rx[r].lpc = "recv"
    /\ rx' = [rx EXCEPT ![r] = [@ EXCEPT !.live = FALSE, !.lpc = "dropped"]]
    /\ UNCHANGED <<log, outcomes, tasks, sent, spawned>>

\* Receiver::recv once a value or an error is available: Lagged when the
\* next value has been overwritten, else the oldest unread value
recv(r) ==
    IF Len(log) - rx[r].next > Capacity
    THEN [lagged |-> TRUE, value |-> None, next |-> Len(log) - Capacity]
    ELSE [lagged |-> FALSE, value |-> Some(log[rx[r].next + 1]), next |-> rx[r].next + 1]

\* mutant: the listener goes on after a lag error
listen_skips_lag(r) ==
    /\ rx[r].live
    /\ rx[r].lpc = "recv"
    /\ rx[r].next < Len(log)
    /\ IF recv(r).lagged
       THEN rx' = [rx EXCEPT ![r] = [@ EXCEPT !.next = recv(r).next]]
       ELSE rx' = [rx EXCEPT ![r] = [@ EXCEPT !.lpc = "posting",
                                                !.next = recv(r).next,
                                                !.got = @ \o recv(r).value]]
    /\ UNCHANGED <<log, outcomes, tasks, sent, spawned>>

\* SlackBotService::start: recv().await returns; the loop body starts, or
\* the loop ends at an error and the service with its receiver is dropped
listen(r) ==
    /\ rx[r].live
    /\ rx[r].lpc = "recv"
    /\ rx[r].next < Len(log)
    /\ IF recv(r).lagged
       THEN rx' = [rx EXCEPT ![r] = [@ EXCEPT !.live = FALSE, !.lpc = "ended",
                                                !.next = recv(r).next]]
       ELSE rx' = [rx EXCEPT ![r] = [@ EXCEPT !.lpc = "posting",
                                                !.next = recv(r).next,
                                                !.got = @ \o recv(r).value]]
    /\ UNCHANGED <<log, outcomes, tasks, sent, spawned>>

\* send_alert_to_slack returns; an error is logged
posted(r, ok) ==
    /\ rx[r].lpc = "posting"
    /\ rx' = [rx EXCEPT ![r] = [@ EXCEPT !.lpc = "recv"]]
    /\ UNCHANGED <<log, outcomes, tasks, sent, spawned>>

(***************************************************************************)
(* A breaker that no specification step touches (SpecErr, SpecRetry).      *)
(***************************************************************************)
BreakerIdle ==
    /\ config = [failure_threshold |-> 0, success_threshold |-> 0, timeout_duration |-> 0]
    /\ state = Closed(0)
    /\ now = 0
    /\ pc = [p \in Callers |-> "idle"]
    /\ res = [p \in Callers |-> NoResult]
    /\ published = -1

(***************************************************************************)
(* Spec: any interleaving of concurrent call()s on one breaker.            *)
(***************************************************************************)
Enter(p) == call_enter(p) /\ UNCHANGED <<observerVars, errVars, retryVars, respVars, clientVars, monitorVars, cycleVars, checkVars, channelVars>>
Resolve(p, r) == call_resolve(p, r) /\ UNCHANGED <<observerVars, errVars, retryVars, respVars, clientVars, monitorVars, cycleVars, checkVars, channelVars>>
Finish(p) == call_finish(p) /\ UNCHANGED <<observerVars, errVars, retryVars, respVars, clientVars, monitorVars, cycleVars, checkVars, channelVars>>
Clock == Tick /\ UNCHANGED <<observerVars, errVars, retryVars, respVars, clientVars, monitorVars, cycleVars, checkVars, channelVars>>

Init ==
    /\ BreakerInit /\ ObserverInit /\ ErrIdle /\ RetryIdle
    /\ RespIdle /\ ClientIdle /\ MonitorIdle
    /\ CycleIdle /\ CheckIdle /\ ChannelIdle

Next ==
    \/ \E p \in Callers : Enter(p)
    \/ \E p \in Callers, r \in OpResults : Resolve(p, r)
    \/ \E p \in Callers : Finish(p)
    \/ Clock

Spec == Init /\ [][Next]_vars

(***************************************************************************)
(* SpecSeq: calls made one at a time (a single caller), observed.          *)
(***************************************************************************)
SeqCaller == CHOOSE p \in Callers : TRUE

SeqEnter == call_enter(SeqCaller) /\ ObserveEnter /\ UNCHANGED <<errVars, retryVars, respVars, clientVars, monitorVars, cycleVars, checkVars, channelVars>>
SeqResolve(r) == call_resolve(SeqCaller, r) /\ UNCHANGED <<observerVars, errVars, retryVars, respVars, clientVars, monitorVars, cycleVars, checkVars, channelVars>>
SeqFinish == call_finish(SeqCaller) /\ ObserveFinish(SeqCaller) /\ UNCHANGED <<errVars, retryVars, respVars, clientVars, monitorVars, cycleVars, checkVars, channelVars>>
SeqClock == Tick /\ UNCHANGED <<observerVars, errVars, retryVars, respVars, clientVars, monitorVars, cycleVars, checkVars, channelVars>>

NextSeq ==
    \/ SeqEnter
    \/ \E r \in OpResults : SeqResolve(r)
    \/ SeqFinish
    \/ SeqClock

SpecSeq == Init /\ [][NextSeq]_vars

(***************************************************************************)
(* SpecErr: is_retryable applied to every drawn error.                     *)
(***************************************************************************)
InitErr ==
    /\ BreakerIdle /\ ObserverInit /\ ErrInit /\ RetryIdle
    /\ RespIdle /\ ClientIdle /\ MonitorIdle
    /\ CycleIdle /\ CheckIdle /\ ChannelIdle

NextErr == Classify

SpecErr == InitErr /\ [][NextErr]_vars

(***************************************************************************)
(* SpecRetry: one run of retry_with_backoff.                               *)
(***************************************************************************)
InitRetry ==
    /\ BreakerIdle /\ ObserverInit /\ ErrIdle /\ RetryInit
    /\ RespIdle /\ ClientIdle /\ MonitorIdle
    /\ CycleIdle /\ CheckIdle /\ ChannelIdle

NextRetry ==
    \/ \E r \in RetryResults : RetryResolve(r)
    \/ RetryWake

SpecRetry == InitRetry /\ [][NextRetry]_vars

(***************************************************************************)
(* SpecWithRetry: one run of with_retry.                                   *)
(***************************************************************************)
InitWithRetry ==
    /\ ObserverInit /\ WithRetryInit
    /\ RespIdle /\ ClientIdle /\ MonitorIdle
    /\ CycleIdle /\ CheckIdle /\ ChannelIdle

NextWithRetry ==
    \/ with_retry_call(SeqCaller) /\ WithRetryFrame
    \/ with_retry_resolve(SeqCaller) /\ WithRetryFrame
    \/ with_retry_match(SeqCaller) /\ WithRetryFrame
    \/ with_retry_clock /\ WithRetryFrame

SpecWithRetry == InitWithRetry /\ [][NextWithRetry]_vars

(***************************************************************************)
(* SpecResp: check_health_internal applied to every drawn delivery.        *)
(***************************************************************************)
InitResp ==
    /\ BreakerIdle /\ ObserverInit /\ ErrIdle /\ RetryIdle
    /\ RespInit /\ ClientIdle /\ MonitorIdle
    /\ CycleIdle /\ CheckIdle /\ ChannelIdle

SpecResp == InitResp /\ [][Respond]_vars

(***************************************************************************)
(* SpecClient: concurrent operations on one StellarRpcClient.              *)
(***************************************************************************)
InitClient ==
    /\ ClientInit /\ ObserverInit /\ ErrIdle /\ RetryIdle
    /\ RespIdle /\ MonitorIdle
    /\ CycleIdle /\ CheckIdle /\ ChannelIdle

NextClient ==
    \/ \E p \in Callers : client_start(p) /\ ClientFrame
    \/ \E p \in Callers, r \in ClientResults : client_resolve(p, r) /\ ClientFrame
    \/ \E p \in Callers : client_wake(p) /\ ClientFrame
    \/ \E p \in Callers : client_finish(p) /\ ClientFrame
    \/ Tick /\ UNCHANGED clientVars /\ ClientFrame

SpecClient == InitClient /\ [][NextClient]_vars

(***************************************************************************)
(* SpecMonitor: the CorridorMonitor and AnchorMonitor tasks sharing one    *)
(* AlertManager.                                                           *)
(***************************************************************************)
MonitorFrame ==
    UNCHANGED <<breakerVars, observerVars, errVars, retryVars, respVars, clientVars, checkVars, channelVars>>

AnchorLists == UNION { Orders(as) : as \in SUBSET Anchors }

InitMonitor ==
    /\ BreakerIdle /\ ObserverInit /\ ErrIdle /\ RetryIdle
    /\ RespIdle /\ ClientIdle /\ MonitorInit
    /\ CycleIdle /\ CheckIdle /\ ChannelIdle

NextMonitor ==
    \/ corridor_tick /\ ObserveCycle("none") /\ MonitorFrame
    \/ corridor_fetch_failed /\ ObserveCycle("failed") /\ MonitorFrame
    \/ \E pg \in Pages :
           corridor_fetched(pg) /\ ObserveCycle("none") /\ MonitorFrame
    \/ \E order \in Orders(DOMAIN page), degraded \in [Corridors -> BOOLEAN] :
           check_corridors(order, degraded) /\ ObserveCycle("completed") /\ MonitorFrame
    \/ anchor_tick /\ UNCHANGED cycleVars /\ MonitorFrame
    \/ anchor_list_failed /\ UNCHANGED cycleVars /\ MonitorFrame
    \/ \E anchors \in AnchorLists :
           anchor_listed(anchors) /\ UNCHANGED cycleVars /\ MonitorFrame
    \/ check_anchor /\ UNCHANGED cycleVars /\ MonitorFrame

SpecMonitor == InitMonitor /\ [][NextMonitor]_vars

(***************************************************************************)
(* SpecMonitorLive: SpecMonitor with both interval timers firing: a tick   *)
(* that is due is eventually delivered to the waiting task.  The monitors  *)
(* are the ones built by new(), without a webhook service.                 *)
(***************************************************************************)
InitMonitorLive ==
    /\ InitMonitor
    /\ webhooks = [monitor |-> FALSE, alerts |-> FALSE]

SpecMonitorLive ==
    /\ InitMonitorLive
    /\ [][NextMonitor]_vars
    /\ WF_vars(corridor_tick /\ ObserveCycle("none") /\ MonitorFrame)
    /\ WF_vars(anchor_tick /\ UNCHANGED cycleVars /\ MonitorFrame)

(***************************************************************************)
(* SpecCheck: check_and_alert applied to every drawn pair of snapshots.    *)
(***************************************************************************)
InitCheck ==
    /\ BreakerIdle /\ ObserverInit /\ ErrIdle /\ RetryIdle
    /\ RespIdle /\ ClientIdle /\ MonitorIdle
    /\ CycleIdle /\ CheckInit /\ ChannelIdle

SpecCheck == InitCheck /\ [][CheckAndAlert]_vars

(***************************************************************************)
(* SpecAlerts: callers of the AlertManager, the spawned notification tasks *)
(* and the listeners on its channel.                                       *)
(***************************************************************************)
AlertsFrame ==
    /\ UNCHANGED <<webhooks, previous_state, last_metrics, mpc, page, apc, todo>>
    /\ UNCHANGED <<breakerVars, observerVars, errVars, retryVars, respVars, clientVars, cycleVars, checkVars>>

InitAlerts ==
    /\ BreakerIdle /\ ObserverInit /\ ErrIdle /\ RetryIdle
    /\ RespIdle /\ ClientIdle
    /\ \E a \in BOOLEAN : webhooks = [monitor |-> FALSE, alerts |-> a]
    /\ previous_state = [c \in Corridors |-> None]
    /\ last_metrics = [a \in Anchors |-> None]
    /\ mpc = "idle" /\ page = <<>> /\ apc = "idle" /\ todo = <<>>
    /\ sent = <<>> /\ spawned = {}
    /\ CycleIdle /\ CheckIdle /\ ChannelInit

NextAlerts ==
    \/ \E i \in CheckCases : alert_corridor(i) /\ AlertsFrame
    \/ \E v \in AnchorPairs : alert_anchor(v[1], v[2]) /\ AlertsFrame
    \/ \E k \in 1..MaxTasks, ok \in BOOLEAN : trigger_finished(k, ok) /\ AlertsFrame
    \/ \E r \in Receivers : subscribe(r) /\ AlertsFrame
    \/ \E r \in Receivers : drop_receiver(r) /\ AlertsFrame
    \/ \E r \in Receivers : listen(r) /\ AlertsFrame
    \/ \E r \in Receivers, ok \in BOOLEAN : posted(r, ok) /\ AlertsFrame

SpecAlerts == InitAlerts /\ [][NextAlerts]_vars

(***************************************************************************)
(* Steps of a caller, as seen in a pair of states.                         *)
(***************************************************************************)
\* caller p is not inside call(): its next step is a call entry
AtEntry(p) == pc[p] \in {"idle", "done"}

\* caller p's call entry is this step (a repeated rejection changes nothing)
Entered(p) == AtEntry(p) /\ (pc'[p] # pc[p] \/ res'[p] # res[p])

\* caller p's match on the operation's result is this step
Finished(p) == pc[p] = "got" /\ pc'[p] = "done"

Failed(p) == res[p] # Ok

\* thresholds and cooldown of a breaker that is meant to trip and recover
ProperConfig ==
    /\ config.failure_threshold >= 1
    /\ config.success_threshold >= 1
    /\ config.timeout_duration >= 1

(***************************************************************************)
(* Claims                                                                  *)
(***************************************************************************)

\* C1: on a breaker called one at a time with failure_threshold >= 1, the
\* step Closed -> Open happens exactly when a call finishes with a retryable
\* error that is the failure_threshold-th retryable failure since the last
\* success (or creation); a non-retryable failure changes neither the state
\* nor that count.
C1_OpensExactlyAtThreshold ==
    [][ config.failure_threshold >= 1 =>
          /\ (state.tag = "Closed" /\ state'.tag = "Open")
                <=> ( /\ state.tag = "Closed"
                      /\ Finished(SeqCaller)
                      /\ Failed(SeqCaller)
                      /\ is_retryable(res[SeqCaller])
                      /\ consec' = config.failure_threshold )
          /\ (Finished(SeqCaller) /\ Failed(SeqCaller) /\ ~is_retryable(res[SeqCaller]))
                => (state' = state /\ consec' = consec)
      ]_vars

\* C1 witness: the breaker has just opened on the MaxThreshold-th failure
C1_Witness ==
    /\ config.failure_threshold = MaxThreshold
    /\ state.tag = "Open"
    /\ state.opened_at = now
    /\ consec = config.failure_threshold
    /\ halfSucc = -1
    /\ pc[SeqCaller] = "done"
    /\ is_retryable(res[SeqCaller])

\* C2: while the breaker is Open and less than timeout_duration has elapsed
\* since opened_at, a call that is attempted returns CircuitBreakerOpen,
\* never starts the wrapped operation and leaves the state as it was.
C2_OpenRejects ==
    [][ \A p \in Callers :
          ( /\ AtEntry(p)
            /\ state.tag = "Open"
            /\ elapsed(state.opened_at) < config.timeout_duration )
          => /\ pc'[p] # "running"
             /\ Entered(p) => ( /\ pc'[p] = "done"
                                /\ res'[p] = CircuitBreakerOpen
                                /\ state' = state )
      ]_vars

\* C2 witness: every caller has been rejected by a breaker opened just now
C2_Witness ==
    /\ state.tag = "Open"
    /\ state.opened_at = now
    /\ config.timeout_duration >= 1
    /\ \A p \in Callers : pc[p] = "done" /\ res[p] = CircuitBreakerOpen

\* C3: a call entering while the breaker is Open with at least
\* timeout_duration elapsed sets the state to HalfOpen{0} in the step that
\* starts the wrapped operation; the step Open -> HalfOpen is only ever such
\* a call entry, never one taken before the timeout has elapsed.
C3_ProbeAfterTimeout ==
    [][ /\ \A p \in Callers :
             ( /\ Entered(p)
               /\ state.tag = "Open"
               /\ elapsed(state.opened_at) >= config.timeout_duration )
             => (state' = HalfOpen(0) /\ pc'[p] = "running")
        /\ (state.tag = "Open" /\ state'.tag = "HalfOpen")
             => /\ elapsed(state.opened_at) >= config.timeout_duration
                /\ state' = HalfOpen(0)
                /\ \E p \in Callers : AtEntry(p) /\ pc'[p] = "running"
      ]_vars

\* C3 witness: a probe is running in HalfOpen{0} after a real cooldown
C3_Witness ==
    /\ state = HalfOpen(0)
    /\ config.timeout_duration = MaxTimeout
    /\ now >= MaxTimeout
    /\ \E p \in Callers : pc[p] = "running"

\* C4: one at a time, with success_threshold >= 1: while HalfOpen,
\* success_count is the number of successes since the breaker became
\* HalfOpen and is below success_threshold; the step HalfOpen -> Closed
\* happens exactly on the success_threshold-th such success and yields
\* Closed{0}.
C4_ClosesAtSuccessThreshold ==
    [][ config.success_threshold >= 1 =>
          /\ state'.tag = "HalfOpen"
                => ( /\ state'.success_count = halfSucc'
                     /\ halfSucc' < config.success_threshold )
          /\ (state.tag = "HalfOpen" /\ state'.tag = "Closed")
                <=> ( /\ state.tag = "HalfOpen"
                      /\ Finished(SeqCaller)
                      /\ ~Failed(SeqCaller)
                      /\ halfSucc' = config.success_threshold )
          /\ (state.tag = "HalfOpen" /\ state'.tag = "Closed")
                => state' = Closed(0)
      ]_vars

\* C4 witness: closed by the MaxThreshold-th success after becoming HalfOpen
C4_Witness ==
    /\ config.success_threshold = MaxThreshold
    /\ state = Closed(0)
    /\ halfSucc = config.success_threshold
    /\ pc[SeqCaller] = "done"
    /\ res[SeqCaller] = Ok

\* C5 as stated: while HalfOpen, any call whose wrapped operation fails
\* leaves the breaker Open with opened_at = the time of that failure.
\* (Stated for configurations with thresholds and timeout of at least 1.)
C5_AnyFailureReopens ==
    [][ ( /\ ProperConfig
          /\ Finished(SeqCaller) /\ Failed(SeqCaller)
          /\ state.tag = "HalfOpen" )
          => state' = Open(now)
      ]_vars

\* C5 amended: while HalfOpen, any call whose wrapped operation fails with
\* a retryable error leaves the breaker Open with opened_at = the time of
\* that failure, whatever success_count had been reached; a non-retryable
\* failure leaves it HalfOpen with the same success_count.
C5_RetryableFailureReopens ==
    [][ (Finished(SeqCaller) /\ Failed(SeqCaller) /\ state.tag = "HalfOpen")
          => IF is_retryable(res[SeqCaller])
             THEN state' = Open(now)
             ELSE state' = state
      ]_vars

\* C5 witness: reopened by a retryable failure after one successful probe
C5_Witness ==
    /\ config.success_threshold = MaxThreshold
    /\ MaxThreshold >= 2
    /\ state = Open(now)
    /\ halfSucc = 1
    /\ consec = 1
    /\ pc[SeqCaller] = "done"
    /\ is_retryable(res[SeqCaller])

\* C6: in every breaker state, a call whose wrapped operation fails with a
\* non-retryable error returns that error and leaves the breaker state and
\* the published metric as they were.
C6_NonRetryablePassesThrough ==
    [][ \A p \in Callers :
          (Finished(p) /\ Failed(p) /\ ~is_retryable(res[p]))
          => /\ state' = state
             /\ published' = published
             /\ res'[p] = res[p]
      ]_vars

\* C6 witness: Closed with a failure counted, and a call that has returned
\* a 404 beside one that returned the counted timeout
C6_Witness ==
    /\ state = Closed(1)
    /\ \E p, q \in Callers :
          /\ pc[p] = "done" /\ res[p] = ServerError(404)
          /\ pc[q] = "done" /\ res[q] = TimeoutError

\* C7: one at a time, a successful call while Closed leaves Closed{0}, and
\* while Closed failure_count is the number of retryable failures since the
\* last success: failures before a success never count toward opening.
C7_SuccessResets ==
    [][ /\ (Finished(SeqCaller) /\ ~Failed(SeqCaller) /\ state.tag = "Closed")
             => state' = Closed(0)
        /\ state'.tag = "Closed" => state'.failure_count = consec'
      ]_vars

\* C7 witness: threshold-1 failures, a success, threshold-1 failures again,
\* and the breaker has never left Closed
C7_Witness ==
    /\ config.failure_threshold = MaxThreshold
    /\ MaxThreshold >= 2
    /\ state = Closed(config.failure_threshold - 1)
    /\ wiped = config.failure_threshold - 1
    /\ consec = config.failure_threshold - 1
    /\ halfSucc = -1

\* the state changes listed in C8
ListedTransition(s, t) ==
    \/ s.tag = "Closed" /\ t = Closed(s.failure_count + 1)
    \/ s.tag = "Closed" /\ t = Closed(0)
    \/ s.tag = "Closed" /\ t.tag = "Open"
    \/ s.tag = "Open" /\ t = HalfOpen(0)
    \/ s.tag = "HalfOpen" /\ t = HalfOpen(s.success_count + 1)
    \/ s.tag = "HalfOpen" /\ t = Closed(0)
    \/ s.tag = "HalfOpen" /\ t.tag = "Open"

\* C8: under any interleaving of concurrent calls the only state changes are
\* the listed ones; in particular never Open -> Closed.  (Stated for
\* configurations with thresholds and timeout of at least 1.)
C8_OnlyListedTransitions ==
    [][ (ProperConfig /\ state' # state) => ListedTransition(state, state') ]_vars

C10_NonRetryableOnce ==
    [][ /\ ( /\ rpc = "await" /\ rpc' # "await"
             /\ invocations = 1
             /\ rlast' # Ok /\ ~is_retryable(rlast') )
           => ( /\ rpc' = "done"
                /\ rresult' = rlast'
                /\ invocations' = 1
                /\ sleeps' = <<>> )
        /\ rpc = "done" => UNCHANGED retryVars
      ]_vars

\* C10 witness: a parse error returned after one invocation, retries allowed
C10_Witness ==
    /\ rcfg.max_retries = MaxRetries
    /\ rpc = "done"
    /\ rresult = ParseError
    /\ invocations = 1
    /\ sleeps = <<>>

\* C11: an operation that fails k < max_retries times with a retryable error
\* and then succeeds makes retry_with_backoff return the success value after
\* exactly k+1 invocations and k sleeps: while fewer than max_retries
\* invocations have failed, a retryable failure leads to one more sleep and
\* one more invocation, and a success returns at once with one sleep per
\* earlier invocation.
C11_SucceedsAfterKFailures ==
    [][ /\ ( /\ rpc = "await" /\ rpc' # "await"
             /\ invocations <= rcfg.max_retries
             /\ rlast' # Ok /\ is_retryable(rlast') )
           => ( /\ rpc' = "sleep"
                /\ Len(sleeps') = invocations
                /\ invocations' = invocations )
        /\ rpc = "sleep"
           => ( /\ rpc' = "await"
                /\ invocations' = invocations + 1
                /\ sleeps' = sleeps )
        /\ ( /\ rpc = "await" /\ rpc' # "await"
             /\ rlast' = Ok )
           => ( /\ rpc' = "done"
                /\ rresult' = Ok
                /\ invocations' = invocations
                /\ Len(sleeps') = invocations - 1 )
      ]_vars

\* C11 witness: success returned after MaxRetries - 1 retried failures
C11_Witness ==
    /\ rcfg.max_retries = MaxRetries
    /\ rpc = "done"
    /\ rresult = Ok
    /\ invocations = MaxRetries
    /\ Len(sleeps) = MaxRetries - 1

\* C12 as stated: an operation that always fails with a retryable error has
\* been invoked exactly max_retries times when retry_with_backoff returns.
\* (Stated for max_retries of at least 1.)
C12_InvokedMaxAttemptsTimes ==
    (rcfg.max_retries >= 1 /\ rpc = "done" /\ rresult # Ok /\ is_retryable(rresult))
        => invocations = rcfg.max_retries

\* C12 amended: an operation that always fails with a retryable error has
\* been invoked exactly max_retries + 1 times when retry_with_backoff returns
\* the last error: the counter starts at 0, is incremented after each retried
\* failure, and the error is returned once attempt = max_retries.
C12_InvokedMaxRetriesPlusOne ==
    (rpc = "done" /\ rresult # Ok /\ is_retryable(rresult))
        => ( /\ invocations = rcfg.max_retries + 1
             /\ attempt = rcfg.max_retries
             /\ Len(sleeps) = rcfg.max_retries
             /\ rresult = rlast )

\* C12 witness: retries exhausted on a timeout with max_retries = MaxRetries
C12_Witness ==
    /\ rcfg.max_retries = MaxRetries
    /\ rpc = "done"
    /\ rresult = TimeoutError
    /\ invocations = MaxRetries + 1

RECURSIVE Pow2(_)
Pow2(n) == IF n = 0 THEN 1 ELSE 2 * Pow2(n - 1)

\* C13: when no retried error carried a retry_after hint, the n-th sleep is
\* min(initial_backoff * 2^(n-1), max_backoff), no sleep exceeds max_backoff
\* and the sleeps are non-decreasing.  (Stated for initial_backoff and
\* max_backoff of at least one unit.)
C13_BackoffSequence ==
    (~hinted /\ rcfg.initial_backoff >= 1 /\ rcfg.max_backoff >= 1) =>
        \A n \in 1..Len(sleeps) :
            /\ sleeps[n] = Min(rcfg.initial_backoff * Pow2(n - 1), rcfg.max_backoff)
            /\ sleeps[n] <= rcfg.max_backoff
            /\ n > 1 => sleeps[n - 1] <= sleeps[n]

\* C14: when the retried error is a RateLimitError carrying retry_after = d
\* the driver sleeps exactly d; for every other retried error it sleeps the
\* current backoff value.
C14_HintUsedVerbatim ==
    [][ (rpc = "await" /\ rpc' = "sleep")
          => /\ Len(sleeps') = Len(sleeps) + 1
             /\ IF rlast'.kind = "RateLimitError" /\ rlast'.retry_after # None
                THEN sleeps'[Len(sleeps')] = rlast'.retry_after[1]
                ELSE sleeps'[Len(sleeps')] = backoff
      ]_vars

\* C14 witness: a hint larger than max_backoff and different from the
\* current backoff has been slept
C14_Witness ==
    /\ rpc = "sleep"
    /\ rlast = RateLimitError(Some(MaxHint))
    /\ rcfg.max_backoff < MaxHint
    /\ backoff # MaxHint
    /\ sleeps[Len(sleeps)] = MaxHint

\* C15: every retry attempt of a client operation passes through the circuit
\* breaker: an operation whose retry sleep ends while the breaker is Open
\* (its timeout not yet elapsed) sends no request and returns
\* CircuitBreakerOpen instead of making the remaining attempts.
C15_RetryAttemptsGuarded ==
    [][ \A p \in Callers :
          (cpc[p] = "sleep" /\ cpc'[p] # "sleep" /\ is_open(state))
             => ( /\ requests'[p] = requests[p]
                  /\ cpc'[p] = "done"
                  /\ cres'[p] = CircuitBreakerOpen ) ]_vars

\* C16: with mock_mode = true every operation returns Ok at once, and after
\* any sequence of operations the breaker is still Closed{0}: no breaker
\* call was entered, no retry made, no request sent, no metric published or
\* error recorded.
C16_MockBypassesEverything ==
    mock_mode =>
        /\ state = Closed(0)
        /\ published = -1
        /\ \A p \in Callers :
              /\ pc[p] = "idle" /\ res[p] = NoResult
              /\ cattempt[p] = 0
              /\ requests[p] = 0
              /\ recorded[p] = <<>>
              /\ cpc[p] \in {"idle", "done"}
              /\ cpc[p] = "done" => cres[p] = Ok

\* C16 witness: every caller of a mock client has completed an operation
\* and time has passed
C16_Witness ==
    /\ mock_mode
    /\ now = MaxTime
    /\ \A p \in Callers : cpc[p] = "done" /\ cres[p] = Ok

\* C17: a non-2xx response maps to one error by status: 429 to
\* RateLimitError; 500..=599 to ServerError with that status, retryable;
\* every other non-2xx status to ServerError with that status, not
\* retryable; a transport timeout to TimeoutError and any other transport
\* failure to NetworkError.
C17_StatusMapping ==
    resp_out # None =>
        /\ resp_in.transport = "timeout" => resp_out[1] = TimeoutError
        /\ resp_in.transport = "failed" => resp_out[1] = NetworkError
        /\ (resp_in.transport = "response" /\ resp_in.status \notin 200..299) =>
              IF resp_in.status = 429
              THEN resp_out[1].kind = "RateLimitError"
              ELSE IF resp_in.status \in 500..599
              THEN resp_out[1] = ServerError(resp_in.status) /\ is_retryable(resp_out[1])
              ELSE resp_out[1] = ServerError(resp_in.status) /\ ~is_retryable(resp_out[1])

\* C18: for a decoded JSON-RPC envelope, a present error field makes the
\* operation fail with JsonRpcError carrying its code and message even when
\* result is present too; result is returned only when error is absent; an
\* envelope with neither gives ParseError; a JsonRpcError is never retried.
C18_ErrorTakesPrecedence ==
    ( /\ resp_out # None
      /\ resp_in.transport = "response"
      /\ resp_in.status \in 200..299
      /\ resp_in.body \in Envelopes )
    => LET env == resp_in.body
           out == resp_out[1]
       IN  /\ env.error # None =>
                 /\ out = [kind |-> "JsonRpcError", code |-> env.error[1].code,
                           message |-> env.error[1].message]
                 /\ \A att \in 0..MaxRetries : ~should_retry(out, att, MaxRetries)
           /\ (env.error = None /\ env.result # None) =>
                 out = [kind |-> "Ok", value |-> env.result[1]]
           /\ out.kind = "Ok" => env.error = None
           /\ (env.error = None /\ env.result = None) => out = ParseError

\* C18 witness: an envelope with both error and result was answered with
\* the JsonRpcError
C18_Witness ==
    /\ resp_in.transport = "response"
    /\ resp_in.status = 200
    /\ resp_in.body = [error |-> Some([code |-> -32600, message |-> "m1"]),
                       result |-> Some("r1")]
    /\ resp_out = Some(JsonRpcError(-32600, "m1"))

\* C19: every failure a non-mock operation returned (a breaker rejection
\* and an error returned after the retries included) has been recorded
\* under endpoint "stellar" exactly once by the time it returns; a
\* successful operation has recorded nothing, nor has one still running.
C19_FailuresRecordedOnce ==
    ~mock_mode =>
        \A p \in Callers :
            recorded[p] = IF cpc[p] = "done" /\ cres[p] # Ok
                          THEN <<[endpoint |-> "stellar", error |-> cres[p]]>>
                          ELSE <<>>

\* C19 witness: one caller was rejected by the open breaker, the other has
\* exhausted its retries on timeouts; each has one record
C19_Witness ==
    /\ ~mock_mode
    /\ cmax_retries = MaxClientRetries
    /\ \E p, q \in Callers :
          /\ cpc[p] = "done" /\ cres[p] = CircuitBreakerOpen
          /\ Len(recorded[p]) = 1
          /\ cpc[q] = "done" /\ cres[q] = TimeoutError
          /\ requests[q] = MaxClientRetries + 1
          /\ Len(recorded[q]) = 1

\* C20: the cycle in which a monitor first observes an entity (no stored
\* snapshot for its id) sends no alert and spawns no notification for it,
\* whatever its metric values, and stores its snapshot.
C20_FirstObservationSilent ==
    [][ /\ (mpc = "locking" /\ mpc' # "locking") =>
              \A c \in DOMAIN page :
                  previous_state[c] = None =>
                      /\ \A i \in 1..Len(sent') : sent'[i].corridor_id # Some(c)
                      /\ \A n \in spawned' : n.id # c
                      /\ previous_state'[c] =
                            Some([success_rate |-> 100, latency |-> 600,
                                  liquidity |-> page[c]])
        /\ (apc = "loop" /\ todo' # todo) =>
              (last_metrics[Head(todo)] = None =>
                      /\ \A i \in 1..Len(sent') : sent'[i].anchor_id # Some(Head(todo))
                      /\ \A n \in spawned' : n.id # Head(todo)
                      /\ last_metrics'[Head(todo)] # None)
      ]_vars

\* C20 witness: with webhook services configured, one corridor and one
\* anchor have been observed (the others never), nothing was sent or spawned
C20_Witness ==
    /\ webhooks.monitor /\ webhooks.alerts
    /\ \E c \in Corridors :
          /\ previous_state[c] = Some(CorridorState(0))
          /\ \A d \in Corridors \ {c} : previous_state[d] = None
    /\ \E a \in Anchors :
          /\ last_metrics[a] # None
          /\ \A b \in Anchors \ {a} : last_metrics[b] = None
    /\ mpc = "ticker" /\ apc = "ticker"
    /\ sent = <<>> /\ spawned = {}


\* C29: with calls running concurrently, a call whose wrapped operation
\* fails with a retryable error and whose result is matched while the breaker
\* is Open (it was admitted before the breaker opened) leaves the state Open
\* with the opened_at it had: a late failure never extends the cooldown.
C29_LateFailureKeepsOpenedAt ==
    [][ \A p \in Callers :
          ( /\ Finished(p) /\ Failed(p) /\ is_retryable(res[p])
            /\ state.tag = "Open" )
          => state' = state
      ]_vars

\* C29 witness: with failure_threshold = 1 and a cooldown of at least 1, both
\* callers were admitted at time 0, one failure opened the breaker at 0 and
\* the other was reported while it was Open; time has passed since
C29_Witness ==
    /\ config.failure_threshold = 1
    /\ config.timeout_duration >= 1
    /\ state = Open(0)
    /\ now >= 1
    /\ \A p \in Callers : pc[p] = "done" /\ is_retryable(res[p])

\* C30 as stated: after every step that changes the breaker state, the
\* value last published through set_circuit_breaker_state is the code of the
\* new state (0 closed, 1 open, 2 half-open).  (Stated for configurations
\* with thresholds and timeout of at least 1.)
C30_PublishedFollowsState ==
    [][ (ProperConfig /\ state' # state)
          => published' = state_value_locked(state') ]_vars


\* C21: check_and_alert gives tx.send a SuccessRateDrop alert exactly when
\* new_success < old_success - 10, a LatencyIncrease alert exactly when
\* new_latency > 1.5 * old_latency and a LiquidityDecrease alert exactly when
\* new_liquidity < 0.7 * old_liquidity; the three checks are independent,
\* each gives at most one alert, and every alert carries the corridor id, no
\* anchor id and the old and new values that were compared.
C21_AlertsExactlyAtThresholds ==
    (chk_in # None /\ chk_out # None) =>
        LET i == chk_in[1]
            out == chk_out[1]
            of(t) == {k \in 1..Len(out) : out[k].alert_type = t}
            carries(t, old, new) ==
                \A k \in of(t) :
                    out[k] = [ alert_type |-> t,
                               corridor_id |-> Some(i.corridor_id),
                               anchor_id |-> None,
                               old_value |-> old, new_value |-> new ]
        IN  /\ Cardinality(of("SuccessRateDrop")) =
                  (IF i.new_success < i.old_success - 10 THEN 1 ELSE 0)
            /\ Cardinality(of("LatencyIncrease")) =
                  (IF 10 * i.new_latency > 15 * i.old_latency THEN 1 ELSE 0)
            /\ Cardinality(of("LiquidityDecrease")) =
                  (IF 10 * i.new_liquidity < 7 * i.old_liquidity THEN 1 ELSE 0)
            /\ Len(out) = Cardinality(of("SuccessRateDrop"))
                            + Cardinality(of("LatencyIncrease"))
                            + Cardinality(of("LiquidityDecrease"))
            /\ carries("SuccessRateDrop", i.old_success, i.new_success)
            /\ carries("LatencyIncrease", i.old_latency, i.new_latency)
            /\ carries("LiquidityDecrease", i.old_liquidity, i.new_liquidity)
            /\ (i.old_success = 95 /\ i.new_success = 80)
                  => Cardinality(of("SuccessRateDrop")) = 1
            /\ (i.old_liquidity = 1000 /\ i.new_liquidity = 650)
                  => Cardinality(of("LiquidityDecrease")) = 1
            /\ (i.old_liquidity = 1000 /\ i.new_liquidity = 750)
                  => Cardinality(of("LiquidityDecrease")) = 0

\* C21 witness: success 95 -> 80 and liquidity 1000 -> 650 with the latency
\* at 1.5 times the old one gave exactly the two alerts, in that order
C21_Witness ==
    /\ chk_in # None /\ chk_out # None
    /\ chk_in[1].old_latency = 100 /\ chk_in[1].new_latency = 150
    /\ chk_out[1] =
          << Alert("SuccessRateDrop", Some(chk_in[1].corridor_id), None, 95, 80),
             Alert("LiquidityDecrease", Some(chk_in[1].corridor_id), None, 1000, 650) >>


\* C24: neither monitor task ends because a cycle failed: each task is
\* always at a position of its loop, and with the timers firing a task that
\* waits at its ticker, in particular after any number of consecutive failed
\* cycles, starts another cycle.
C24_FailedCycleIsFollowedByAnother ==
    /\ [](mpc \in {"ticker", "fetching", "locking"})
    /\ [](apc \in {"ticker", "listing", "loop"})
    /\ \A n \in 1..MaxFails :
          (mpc = "ticker" /\ fails = n) ~> (mpc = "fetching" /\ fails = n)
    /\ (mpc = "ticker") ~> (mpc = "fetching")
    /\ (apc = "ticker") ~> (apc = "listing")

\* C24 witness: a cycle has started after MaxFails failed cycles in a row
C24_Witness ==
    /\ fails = MaxFails
    /\ mpc = "fetching"


\* C25: a call of the AlertManager gives every alert that is due to tx.send
\* and returns, whatever the channel's receivers do: with no receiver each
\* send returns an error that is discarded and the later sends and the spawn
\* of the call still happen; with receivers, however far behind, each alert
\* is accepted; no receiver is waited for.
C25_SendNeverFailsTheCaller ==
    [][ /\ \A i \in CheckCases :
             alert_corridor(i) =>
                /\ Len(sent') = (IF i.new_success < i.old_success - 10 THEN 1 ELSE 0)
                                + (IF 10 * i.new_latency > 15 * i.old_latency THEN 1 ELSE 0)
                                + (IF 10 * i.new_liquidity < 7 * i.old_liquidity THEN 1 ELSE 0)
                /\ Len(outcomes') = Len(sent')
                /\ \A k \in 1..Len(outcomes') :
                      outcomes'[k] = (IF receiver_count = 0 THEN "Err" ELSE "Ok")
                /\ log' = (IF receiver_count = 0 THEN log ELSE log \o sent')
                /\ rx' = rx
        /\ \A v \in AnchorPairs :
             alert_anchor(v[1], v[2]) =>
                /\ Len(sent') = 1
                /\ outcomes' = <<IF receiver_count = 0 THEN "Err" ELSE "Ok">>
                /\ log' = (IF receiver_count = 0 THEN log ELSE log \o sent')
                /\ webhooks.alerts => Len(tasks') = Len(tasks) + 1
                /\ rx' = rx
      ]_vars

\* C25 witness: a listener ended after falling behind, no receiver is left,
\* and a call has just had both of its sends fail
C25_Witness ==
    /\ receiver_count = 0
    /\ \E r \in Receivers : rx[r].lpc = "ended"
    /\ Len(sent) = 2
    /\ outcomes = <<"Err", "Err">>

C27_AlertThenDetachedTrigger ==
    [][ /\ \A v \in AnchorPairs :
             (webhooks.alerts /\ alert_anchor(v[1], v[2])) =>
                /\ sent' = << [ alert_type |-> "AnchorMetricChange",
                                corridor_id |-> None, anchor_id |-> Some("a1"),
                                old_value |-> v[1], new_value |-> v[2] ] >>
                /\ receiver_count > 0 => log' = Append(log, sent'[1])
                /\ Len(tasks') = Len(tasks) + 1
                /\ tasks'[Len(tasks')].old_status =
                      (IF v[1] > 90 THEN "healthy" ELSE "degraded")
                /\ tasks'[Len(tasks')].new_status =
                      (IF v[2] > 90 THEN "healthy" ELSE "degraded")
                /\ tasks'[Len(tasks')].new_value = v[2]
        /\ \A k \in 1..MaxTasks, ok \in BOOLEAN :
             trigger_finished(k, ok) => UNCHANGED <<log, rx, sent, outcomes>>
      ]_vars

\* C27 witness: the task of the alert 91 -> 90 is still pending while a later
\* corridor alert has been accepted behind the anchor alert
C27_Witness ==
    /\ Len(tasks) = 1
    /\ tasks[1].old_status = "healthy"
    /\ tasks[1].new_status = "degraded"
    /\ Len(log) = 2
    /\ log[1] = Alert("AnchorMetricChange", None, Some("a1"), 91, 90)
    /\ log[2].corridor_id # None

\* C28 as stated: with a webhook service, send_anchor_alert hands off one
\* status-changed notification when the old and the new status ("healthy"
\* above 90, else "degraded") differ, and none when they are the same.
C28_NotifiedOnlyOnStatusChange ==
    [][ \A v \in AnchorPairs :
          (webhooks.alerts /\ alert_anchor(v[1], v[2])) =>
             Len(tasks') - Len(tasks) =
                (IF (v[1] > 90) # (v[2] > 90) THEN 1 ELSE 0)
      ]_vars


\* C22: a completed cycle leaves, for every corridor of its page (every
\* visited anchor), the snapshot holding the values derived in that cycle,
\* whether or not an alert fired; a corridor whose values are the stored ones
\* again gets no alert, so a change that persists is alerted on once.
C22_SnapshotOverwrittenEveryCycle ==
    [][ /\ (mpc = "locking" /\ mpc' = "ticker") =>
              \A c \in DOMAIN page :
                 /\ previous_state'[c] =
                       Some([success_rate |-> 100, latency |-> 600, liquidity |-> page[c]])
                 /\ previous_state[c] = previous_state'[c]
                       => \A k \in 1..Len(sent') : sent'[k].corridor_id # Some(c)
        /\ (apc = "loop" /\ todo' = Tail(todo)) =>
              last_metrics'[Head(todo)] =
                 Some([transaction_count |-> 0, success_rate |-> 0, avg_latency |-> 0])
      ]_vars

\* C22 witness: a cycle has alerted on a corridor's liquidity falling from
\* MaxLiquidity to 0 and stored the new values
C22_Witness ==
    \E c \in Corridors :
        /\ mpc = "ticker"
        /\ sent = <<Alert("LiquidityDecrease", Some(c), None, MaxLiquidity, 0)>>
        /\ previous_state[c] = Some([success_rate |-> 100, latency |-> 600, liquidity |-> 0])

\* C23 as stated: the snapshot a cycle compares a corridor against was
\* written by the immediately preceding cycle.
C23_ComparedWithPrecedingCycle ==
    [][ (mpc = "locking" /\ mpc' = "ticker") =>
           \A c \in DOMAIN page : previous_state[c] # None => fresh[c]
      ]_vars

\* C23 amended: the snapshot a cycle compares a corridor against holds the
\* values derived by the latest earlier cycle that completed with the
\* corridor in its page, however many failed cycles or pages without the
\* corridor lie between; the alerts carry those values as old values.
C23_ComparedWithLatestObservation ==
    [][ (mpc = "locking" /\ mpc' = "ticker") =>
           \A c \in DOMAIN page :
              /\ previous_state[c] = seen[c]
              /\ \A k \in 1..Len(sent') :
                    sent'[k].corridor_id = Some(c) =>
                       /\ seen[c] # None
                       /\ sent'[k].old_value = seen[c][1].liquidity
                       /\ sent'[k].new_value = page[c]
      ]_vars

\* C23 witness: after MaxFails failed cycles a cycle holds a page with a
\* corridor whose liquidity fell to 0 and is at the comparison with the
\* snapshot stored before the failures
C23_Witness ==
    \E c \in Corridors :
        /\ mpc = "locking"
        /\ fails = MaxFails
        /\ c \in DOMAIN page
        /\ page[c] = 0
        /\ previous_state[c] = Some([success_rate |-> 100, latency |-> 600, liquidity |-> MaxLiquidity])
        /\ ~fresh[c]


\* C31 as stated: while the breaker is HalfOpen, at most half_open_max_calls
\* calls have been admitted since it became HalfOpen.  (Stated for calls made
\* one at a time, with thresholds and timeout of at least 1.)
C31_HalfOpenAdmissionsLimited ==
    (ProperConfig /\ state.tag = "HalfOpen") => probes <= half_open_max_calls

C35_CountersBelowThresholds ==
    /\ []( (config.failure_threshold >= 1 /\ config.success_threshold >= 1) =>
             /\ state.tag = "Closed" => state.failure_count < config.failure_threshold
             /\ state.tag = "HalfOpen" => state.success_count < config.success_threshold )
    /\ [][ (config.failure_threshold >= 1 /\ config.success_threshold >= 1) =>
             /\ (state.tag # "Closed" /\ state'.tag = "Closed") => state'.failure_count = 0
             /\ (state.tag # "HalfOpen" /\ state'.tag = "HalfOpen") => state'.success_count = 0
         ]_vars

\* C35 witness: one success short of closing, with the largest threshold
C35_Witness ==
    /\ MaxThreshold >= 2
    /\ config.failure_threshold >= 1
    /\ config.success_threshold = MaxThreshold
    /\ state = HalfOpen(MaxThreshold - 1)


\* C36: one client operation makes one admission check and at most one
\* breaker state update, whatever the number of tries: the breaker state
\* changes only at the entry of an operation and at its return; a try that
\* fails and is retried, and the wake-up that sends the next request, leave
\* it alone; an operation returning a retryable error to a Closed breaker
\* raises failure_count by exactly 1 (opening the breaker when that reaches
\* failure_threshold) and an operation returning Ok counts as one success.
C36_OneBreakerUpdatePerOperation ==
    [][ /\ state' # state =>
              \E p \in Callers :
                  \/ cpc[p] \in {"idle", "done"} /\ cpc'[p] \in {"await", "done"}
                  \/ cpc[p] = "got" /\ cpc'[p] = "done"
        /\ \A p \in Callers :
              /\ (cpc[p] = "await" /\ cpc'[p] = "sleep") => UNCHANGED <<state, published>>
              /\ (cpc[p] = "sleep" /\ cpc'[p] = "await") => UNCHANGED <<state, published>>
              /\ (cpc[p] = "got" /\ cpc'[p] = "done" /\ state.tag = "Closed") =>
                    IF res[p] = Ok
                    THEN state' = Closed(0)
                    ELSE IF is_retryable(res[p])
                    THEN state' = IF state.failure_count + 1 >= config.failure_threshold
                                  THEN Open(now)
                                  ELSE Closed(state.failure_count + 1)
                    ELSE state' = state
              /\ (cpc[p] = "got" /\ cpc'[p] = "done" /\ state.tag = "HalfOpen" /\ res[p] = Ok) =>
                    state' = IF state.success_count + 1 >= config.success_threshold
                             THEN Closed(0)
                             ELSE HalfOpen(state.success_count + 1)
      ]_vars

\* C36 witness: failure_threshold operations, each exhausting its retries,
\* have sent failure_threshold * (max_retries + 1) requests and the breaker
\* has just opened
C36_Witness ==
    /\ ~mock_mode
    /\ cmax_retries = MaxClientRetries
    /\ config.failure_threshold = Cardinality(Callers)
    /\ \A p \in Callers :
          /\ cpc[p] = "done"
          /\ cres[p] = TimeoutError
          /\ requests[p] = MaxClientRetries + 1
    /\ state.tag = "Open"


\* C33: when the fetch at the start of a corridor cycle fails, the cycle ends
\* before the snapshot map is locked: the step sends no alert, spawns no
\* notification task and leaves previous_state exactly as it was.
C33_FailedFetchTouchesNothing ==
    [][ (mpc = "fetching" /\ mpc' \notin {"fetching", "locking"})
          => /\ mpc' = "ticker"
             /\ sent' = <<>>
             /\ spawned' = {}
             /\ previous_state' = previous_state ]_vars

\* C33 witness: the last corridor cycle failed at its fetch, with snapshots
\* of an earlier cycle in the map
C33_Witness ==
    /\ fails >= 1
    /\ mpc = "ticker"
    /\ \A c \in Corridors : previous_state[c] # None /\ previous_state[c][1].liquidity > 0
    /\ sent = <<>>
    /\ spawned = {}

\* C34 as stated: whenever a monitor releases the write lock after changing
\* its snapshot map, the loop of that cycle is over, so no reader can
\* see the map with only some of the cycle's entities written.
C34_NoPartlyWrittenCycleVisible ==
    [][ /\ previous_state' # previous_state => mpc' = "ticker"
        /\ last_metrics' # last_metrics => apc' = "ticker" ]_vars

\* C38: every snapshot CorridorMonitor stores has success_rate 100 and
\* latency 600, and every alert a corridor cycle sends is a
\* LiquidityDecrease for a corridor of the fetched page.
C38_OnlyLiquidityDecrease ==
    /\ [](\A c \in Corridors :
             previous_state[c] # None =>
                 /\ previous_state[c][1].success_rate = 100
                 /\ previous_state[c][1].latency = 600)
    /\ [][ (mpc = "locking" /\ mpc' = "ticker") =>
             \A i \in 1..Len(sent') :
                 /\ sent'[i].alert_type = "LiquidityDecrease"
                 /\ sent'[i].corridor_id \in { Some(c) : c \in DOMAIN page }
                 /\ sent'[i].anchor_id = None ]_vars

\* C38 witness: a cycle has just alerted for every corridor
C38_Witness ==
    /\ mpc = "ticker"
    /\ Len(sent) = Cardinality(Corridors)
    /\ \A i \in 1..Len(sent) : sent[i].alert_type = "LiquidityDecrease"

\* C39: AnchorMonitor never sends an alert and never spawns a notification
\* task: no step of check_anchors does, and every stored metrics record is
\* (0, 0, 0).
C39_AnchorMonitorSilent ==
    /\ [](\A a \in Anchors :
             last_metrics[a] # None =>
                 last_metrics[a][1] = [transaction_count |-> 0, success_rate |-> 0,
                                       avg_latency |-> 0])
    /\ [][ (apc' # apc \/ todo' # todo) => (sent' = <<>> /\ spawned' = {}) ]_vars

\* C39 witness: with a webhook service, every anchor has metrics of an
\* earlier cycle and the last anchor of this cycle is about to be compared
C39_Witness ==
    /\ webhooks.alerts
    /\ apc = "loop"
    /\ Len(todo) = 1
    /\ \A a \in Anchors : last_metrics[a] # None
    /\ sent = <<>>
    /\ spawned = {}


\* C40: the listener loop ends at the lag error of its receiver: a recv()
\* that finds the receiver more than Capacity behind ends the loop without
\* forwarding anything, and an ended listener never changes again, so it
\* forwards no later alert; a recv() that returns an alert forwards that
\* one, and the return of the post, failed or not, takes the loop back to
\* recv().
C40_ListenerEndsAtLag ==
    [][ \A r \in Receivers :
          /\ (rx[r].lpc = "recv" /\ rx'[r] # rx[r] /\ rx'[r].lpc # "dropped") =>
                IF Len(log) - rx[r].next > Capacity
                THEN /\ rx'[r].lpc = "ended"
                     /\ ~rx'[r].live
                     /\ rx'[r].got = rx[r].got
                ELSE /\ rx'[r].lpc = "posting"
                     /\ rx'[r].live
                     /\ rx'[r].got = Append(rx[r].got, log[rx[r].next + 1])
          /\ rx[r].lpc = "ended" => rx'[r] = rx[r]
          /\ (rx[r].lpc = "posting" /\ rx'[r] # rx[r]) =>
                /\ rx'[r].lpc = "recv"
                /\ rx'[r].live
                /\ rx'[r].got = rx[r].got
      ]_vars

\* C40 witness: a listener that forwarded nothing has ended at a lag error
\* while an alert it never read is still retained by the channel, and the
\* other listener is forwarding it
C40_Witness ==
    \E r, q \in Receivers :
        /\ rx[r].lpc = "ended"
        /\ rx[r].got = <<>>
        /\ rx[r].next < Len(log)
        /\ rx[q].lpc = "posting"
        /\ rx[q].got # <<>>
        /\ rx[q].got[Len(rx[q].got)] = log[Len(log)]


\* C37: when with_retry has returned the operation's own error e and the
\* breaker is still Closed, the operation was invoked max(1, max_attempts)
\* times if e is NetworkError, TimeoutError or RateLimitError and exactly
\* once for every other error, a ServerError of status >= 500 included;
\* every invocation went through the breaker (one call entry each, and one
\* counted failure each when e is retryable); the delay slept before
\* attempt n+1 was min(base_delay_ms * 2^(n-1), max_delay_ms).
C37_WithRetryInvocations ==
    (rpc = "done" /\ e_in # Ok /\ state.tag = "Closed") =>
        /\ rresult = e_in
        /\ invocations = IF e_in.kind \in {"NetworkError", "TimeoutError", "RateLimitError"}
                         THEN (IF rcfg.max_attempts >= 1 THEN rcfg.max_attempts ELSE 1)
                         ELSE 1
        /\ attempt = invocations
        /\ state.failure_count = IF is_retryable(e_in) THEN invocations ELSE 0
        /\ Len(sleeps) = invocations - 1
        /\ \A n \in 1..Len(sleeps) :
              sleeps[n] = Min(rcfg.base_delay_ms * Pow2(n - 1), rcfg.max_delay_ms)

\* C37 witness: MaxRetries invocations of an operation timing out, the
\* delays growing, the breaker still Closed
C37_Witness ==
    /\ rpc = "done"
    /\ e_in = TimeoutError
    /\ rcfg.max_attempts = MaxRetries
    /\ invocations = MaxRetries
    /\ state = Closed(MaxRetries)
    /\ Len(sleeps) >= 2
    /\ sleeps[1] < sleeps[2]

====
